---- MODULE Spec2Model ----
(***************************************************************************)
(* Model of the Step Functions test helpers of                             *)
(* localstack/testing/pytest/stepfunctions/utils.py:                       *)
(*   - SfnNoneRecursiveParallelTransformer._normalise_events, the in-place *)
(*     rewrite of the events emitted by a Parallel state;                  *)
(*   - await_on_execution_events and the check functions built on it;      *)
(*   - the list, describe and log awaits, and how each ends for its caller;*)
(*   - poll_condition on a clock;                                          *)
(*   - two concurrent calls of await_on_execution_events.                  *)
(***************************************************************************)
EXTENDS Integers, Sequences, FiniteSets, TLC

VARIABLES
    input,       \* the list handed to _normalise_events, as it was on entry
    events,      \* the list _normalise_events rewrites in place
    i,           \* index of the loop `for i, event in enumerate(events)` (0-based)
    start_idx,   \* local start_idx
    sublist,     \* local sublist
    in_sublist,  \* local in_sublist
    pc,          \* "loop" while the for loop runs, "done" after it
    pass,        \* 1: first call on the list, 2: second call on the result
    first,       \* the list as the first call left it
    srv,         \* the execution history held by the Step Functions service
    hist_resp,   \* the outcome of the latest fetch made by the poll condition
    aw_events,   \* the accumulator `events` of await_on_execution_events
    check_func,  \* the check function the await was called with
    polls,       \* evaluations of the poll condition made so far
    aw_pc,       \* where the await is: "polling" in its poll loop, or how it ended
    helper,      \* the await helper that was called
    svc,         \* the resource the condition of a list, describe or log await fetches
    log_stream_name,  \* local log_stream_name of the log awaits
    poller,      \* one poll_condition call on a clock: its arguments and bookkeeping
    execs,       \* concurrent awaits: the history of each execution
    heap,        \* concurrent awaits: the list objects allocated by `list()`
    calls,       \* concurrent awaits: the frame of each await_on_execution_events call
    tr,          \* one call of SfnNoneRecursiveParallelTransformer.transform
    dep,         \* one call of log_deprecation_warnings and what it logged
    launch,      \* one call of launch_and_record_logs and what it recorded
    sqs          \* one call of record_sqs_events, and the queue it reads

normVars == <<input, events, i, start_idx, sublist, in_sublist, pc, pass, first>>
awaitVars == <<srv, hist_resp, aw_events, check_func, polls, aw_pc>>
helperVars == <<helper, svc, log_stream_name>>
pollerVars == <<poller>>
concVars == <<execs, heap, calls>>
laterVars == <<tr, dep, launch, sqs>>
vars == <<input, events, i, start_idx, sublist, in_sublist, pc, pass, first,
          srv, hist_resp, aw_events, check_func, polls, aw_pc,
          helper, svc, log_stream_name, poller, execs, heap, calls,
          tr, dep, launch, sqs>>

(***************************************************************************)
(* Bounds of the model.                                                    *)
(***************************************************************************)
MaxLen == 5
MaxHist == 2
MaxPolls == 3
MaxTs == 1
MaxLongLen == 7

(***************************************************************************)
(* Python values.  A dict is a function from its keys; an int n is held    *)
(* as [int |-> n] and a tuple t as [tuple |-> t] wherever one key may hold *)
(* either (the "id" of an event).                                          *)
(***************************************************************************)
None == "None"
\* The outcome of a get_execution_history call that raised ClientError, and the
\* value of hist_resp before the first call.
ClientError == [error |-> "ClientError"]
NotFetched == [error |-> "not fetched"]
NoStartIdx == -1
PyInt(n) == [int |-> n]
PyTuple(t) == [tuple |-> t]
SentinelId == PyTuple(<<0>>)

ParallelStateStarted == "ParallelStateStarted"
ParallelStateSucceeded == "ParallelStateSucceeded"
ParallelStateAborted == "ParallelStateAborted"
ParallelStateExited == "ParallelStateExited"
ParallelStateFailed == "ParallelStateFailed"
ExecutionStarted == "ExecutionStarted"
ExecutionSucceeded == "ExecutionSucceeded"
ExecutionFailed == "ExecutionFailed"
ExecutionAborted == "ExecutionAborted"
ExecutionTimedOut == "ExecutionTimedOut"
TaskStateEntered == "TaskStateEntered"
TaskStateExited == "TaskStateExited"
PassStateEntered == "PassStateEntered"

\* A history event as the service numbers it: the n-th event of a history has
\* id n and previousEventId n - 1.
Event(ts, type, n) ==
    [timestamp |-> ts, type |-> type, id |-> PyInt(n), previousEventId |-> n - 1]

\* An event that carries a details key.
EventWith(ts, type, n, key) == Event(ts, type, n) @@ (key :> <<>>)

\* An event record without a "type" key.
UntypedEvent(ts, n) ==
    [timestamp |-> ts, id |-> PyInt(n), previousEventId |-> n - 1]

\* event.get("type")
event_type(event) == IF "type" \in DOMAIN event THEN event.type ELSE None

(***************************************************************************)
(* to_json_str: json.dumps of an event, as the list of the code points of  *)
(* its text, keys in the order of the HistoryEvent shape.                  *)
(***************************************************************************)
StrChars(s) ==
    CASE s = "ParallelStateStarted" -> <<80, 97, 114, 97, 108, 108, 101, 108, 83, 116, 97, 116, 101, 83, 116, 97, 114, 116, 101, 100>>
      [] s = "ParallelStateSucceeded" -> <<80, 97, 114, 97, 108, 108, 101, 108, 83, 116, 97, 116, 101, 83, 117, 99, 99, 101, 101, 100, 101, 100>>
      [] s = "ParallelStateAborted" -> <<80, 97, 114, 97, 108, 108, 101, 108, 83, 116, 97, 116, 101, 65, 98, 111, 114, 116, 101, 100>>
      [] s = "ParallelStateExited" -> <<80, 97, 114, 97, 108, 108, 101, 108, 83, 116, 97, 116, 101, 69, 120, 105, 116, 101, 100>>
      [] s = "ParallelStateFailed" -> <<80, 97, 114, 97, 108, 108, 101, 108, 83, 116, 97, 116, 101, 70, 97, 105, 108, 101, 100>>
      [] s = "TaskStateEntered" -> <<84, 97, 115, 107, 83, 116, 97, 116, 101, 69, 110, 116, 101, 114, 101, 100>>
      [] s = "TaskStateExited" -> <<84, 97, 115, 107, 83, 116, 97, 116, 101, 69, 120, 105, 116, 101, 100>>
      [] s = "PassStateEntered" -> <<80, 97, 115, 115, 83, 116, 97, 116, 101, 69, 110, 116, 101, 114, 101, 100>>
      [] s = "ExecutionStarted" -> <<69, 120, 101, 99, 117, 116, 105, 111, 110, 83, 116, 97, 114, 116, 101, 100>>
      [] s = "ExecutionSucceeded" -> <<69, 120, 101, 99, 117, 116, 105, 111, 110, 83, 117, 99, 99, 101, 101, 100, 101, 100>>
      [] s = "ExecutionFailed" -> <<69, 120, 101, 99, 117, 116, 105, 111, 110, 70, 97, 105, 108, 101, 100>>
      [] s = "ExecutionAborted" -> <<69, 120, 101, 99, 117, 116, 105, 111, 110, 65, 98, 111, 114, 116, 101, 100>>
      [] s = "ExecutionTimedOut" -> <<69, 120, 101, 99, 117, 116, 105, 111, 110, 84, 105, 109, 101, 100, 79, 117, 116>>
      [] s = "executionAbortedEventDetails" -> <<101, 120, 101, 99, 117, 116, 105, 111, 110, 65, 98, 111, 114, 116, 101, 100, 69, 118, 101, 110, 116, 68, 101, 116, 97, 105, 108, 115>>
      [] s = "executionTimedOutEventDetails" -> <<101, 120, 101, 99, 117, 116, 105, 111, 110, 84, 105, 109, 101, 100, 79, 117, 116, 69, 118, 101, 110, 116, 68, 101, 116, 97, 105, 108, 115>>
      [] s = "stateEnteredEventDetails" -> <<115, 116, 97, 116, 101, 69, 110, 116, 101, 114, 101, 100, 69, 118, 101, 110, 116, 68, 101, 116, 97, 105, 108, 115>>
      [] s = "timestamp" -> <<116, 105, 109, 101, 115, 116, 97, 109, 112>>
      [] s = "type" -> <<116, 121, 112, 101>>
      [] s = "id" -> <<105, 100>>
      [] s = "previousEventId" -> <<112, 114, 101, 118, 105, 111, 117, 115, 69, 118, 101, 110, 116, 73, 100>>
      [] s = "executionStartedEventDetails" -> <<101, 120, 101, 99, 117, 116, 105, 111, 110, 83, 116, 97, 114, 116, 101, 100, 69, 118, 101, 110, 116, 68, 101, 116, 97, 105, 108, 115>>
      [] s = "executionSucceededEventDetails" -> <<101, 120, 101, 99, 117, 116, 105, 111, 110, 83, 117, 99, 99, 101, 101, 100, 101, 100, 69, 118, 101, 110, 116, 68, 101, 116, 97, 105, 108, 115>>
      [] s = "executionFailedEventDetails" -> <<101, 120, 101, 99, 117, 116, 105, 111, 110, 70, 97, 105, 108, 101, 100, 69, 118, 101, 110, 116, 68, 101, 116, 97, 105, 108, 115>>

\* The keys an event may hold, in the order the service writes them.
KeyOrder ==
    <<"timestamp", "type", "id", "previousEventId",
      "executionStartedEventDetails", "executionSucceededEventDetails",
      "executionFailedEventDetails", "executionAbortedEventDetails",
      "executionTimedOutEventDetails", "stateEnteredEventDetails">>

RECURSIVE DecChars(_)
\* The decimal text of a natural number.
DecChars(n) ==
    IF n < 10 THEN <<48 + n>> ELSE DecChars(n \div 10) \o <<48 + (n % 10)>>

RECURSIVE JoinChars(_, _)
\* sep.join(parts)
JoinChars(parts, sep) ==
    IF Len(parts) = 0 THEN <<>>
    ELSE IF Len(parts) = 1 THEN parts[1]
    ELSE parts[1] \o sep \o JoinChars(Tail(parts), sep)

\* The JSON text of the value event[k].
ValueChars(event, k) ==
    CASE k = "type" -> <<34>> \o StrChars(event[k]) \o <<34>>
      [] k = "id" ->
            IF "int" \in DOMAIN event[k]
            THEN DecChars(event[k].int)
            ELSE <<91>> \o JoinChars([j \in 1..Len(event[k].tuple) |->
                                         DecChars(event[k].tuple[j])], <<44, 32>>)
                     \o <<93>>
      [] k \in {"timestamp", "previousEventId"} -> DecChars(event[k])
      [] OTHER -> <<123, 125>>

to_json_str(event) ==
    LET keys == SelectSeq(KeyOrder, LAMBDA k : k \in DOMAIN event)
        pairs == [j \in 1..Len(keys) |->
                    <<34>> \o StrChars(keys[j]) \o <<34, 58, 32>>
                      \o ValueChars(event, keys[j])]
    IN <<123>> \o JoinChars(pairs, <<44, 32>>) \o <<125>>

\* a < b on Python strings: decided by the first code point that differs, a
\* proper prefix first.
StrLess(a, b) ==
    LET n == IF Len(a) < Len(b) THEN Len(a) ELSE Len(b)
        diff == {k \in 1..n : a[k] # b[k]}
    IN IF diff = {} THEN Len(a) < Len(b)
       ELSE LET k == CHOOSE j \in diff : \A m \in diff : j <= m
            IN a[k] < b[k]

RECURSIVE InsertByKey(_, _)
\* x put into the sorted list s behind every element whose key is not greater.
InsertByKey(x, s) ==
    IF Len(s) = 0 THEN <<x>>
    ELSE IF StrLess(to_json_str(x), to_json_str(s[1])) THEN <<x>> \o s
    ELSE <<s[1]>> \o InsertByKey(x, Tail(s))

RECURSIVE SortedByJson(_)
\* sorted(s, key=lambda e: to_json_str(e)): a stable sort.
SortedByJson(s) ==
    IF Len(s) = 0 THEN <<>>
    ELSE InsertByKey(s[Len(s)], SortedByJson(SubSeq(s, 1, Len(s) - 1)))

(***************************************************************************)
(* SfnNoneRecursiveParallelTransformer._normalise_events                   *)
(***************************************************************************)
\* The event types of the second branch of the loop body.
ClosingTypes ==
    {None, ParallelStateSucceeded, ParallelStateAborted,
     ParallelStateExited, ParallelStateFailed}

\* events[lo:hi] = new, for 0 <= lo and 0 <= hi <= len(events).
SliceAssign(evs, lo, hi, new) ==
    LET stop == IF hi < lo THEN lo ELSE hi
    IN SubSeq(evs, 1, lo) \o new \o SubSeq(evs, stop + 1, Len(evs))

\* The first bound of the slice events[start_idx:i].
SliceStart(idx) == IF idx = NoStartIdx THEN 0 ELSE idx

\* A slice assignment that forgets to sort.
UnsortedSublist(sub) == sub

\* The right-hand side of the slice assignment.
SortedSublist(sub) == SortedByJson(sub)

\* An event collected with the identity it came with.
KeepIdentity(event) == event

\* event["id"] = (0,); event["previousEventId"] = 0
ResetIdentity(event) ==
    [k \in DOMAIN event \cup {"id", "previousEventId"} |->
        IF k = "id" THEN SentinelId
        ELSE IF k = "previousEventId" THEN 0
        ELSE event[k]]

\* The state of the loop on entry to _normalise_events(evs).
LoopStart(evs) ==
    [events |-> evs, i |-> 0, start_idx |-> NoStartIdx, sublist |-> <<>>,
     in_sublist |-> FALSE]

\* One iteration of the loop: the list iterator hands out events[i] of the list
\* as it is now.
LoopBody(st) ==
    LET event == st.events[st.i + 1]
        t == event_type(event)
        next == [st EXCEPT !.i = st.i + 1]
    IN CASE t = None ->
              [next EXCEPT !.in_sublist = FALSE]
         [] t # None /\ t \in ClosingTypes ->
              [next EXCEPT
                 !.events = SliceAssign(st.events, SliceStart(st.start_idx),
                                        st.i, SortedSublist(st.sublist)),
                 !.in_sublist = FALSE]
         [] t = ParallelStateStarted ->
              [next EXCEPT !.in_sublist = TRUE, !.sublist = <<>>,
                           !.start_idx = st.i + 1]
         [] t \notin ClosingTypes /\ t # ParallelStateStarted /\ st.in_sublist ->
              [next EXCEPT
                 !.events[st.i + 1] = ResetIdentity(event),
                 !.sublist = Append(st.sublist, ResetIdentity(event))]
         [] OTHER -> next

\* The list iterator is exhausted.
LoopDone(st) == st.i >= Len(st.events)

RECURSIVE RunLoop(_)
RunLoop(st) == IF LoopDone(st) THEN st ELSE RunLoop(LoopBody(st))

\* The list as a call of _normalise_events leaves it.
_normalise_events(evs) == RunLoop(LoopStart(evs)).events

(***************************************************************************)
(* The exceptions the statements of the loop body can raise.               *)
(***************************************************************************)
\* event[key]: a KeyError when the dict has no such key.
dict_subscript(event, key) ==
    IF key \in DOMAIN event
    THEN [error |-> None, value |-> event[key]]
    ELSE [error |-> "KeyError", value |-> None]

\* event.get(key): None when the dict has no such key, never an error.
dict_get(event, key) ==
    IF key \in DOMAIN event
    THEN [error |-> None, value |-> event[key]]
    ELSE [error |-> None, value |-> None]

\* The bounds of a slice events[lo:hi]: each is None (NoStartIdx) or an int,
\* of any value; a bound of another kind is a TypeError.
slice_bounds_error(lo, hi) ==
    IF lo \in Int /\ hi \in Int THEN None ELSE "TypeError"

\* The exception the next iteration of the loop raises, None when it raises
\* none: the lookup of the type, then, on a closing marker, the slice
\* assignment. The sort compares the strings to_json_str gives, the writes of
\* id and previousEventId are on a dict, and the list iterator takes a list
\* that has changed its length.
IterationError(st) ==
    LET event == st.events[st.i + 1]
        looked == dict_get(event, "type")
    IN IF looked.error # None THEN looked.error
       ELSE IF looked.value # None /\ looked.value \in ClosingTypes
       THEN slice_bounds_error(st.start_idx, st.i)
       ELSE None

(***************************************************************************)
(* The normaliser as a state machine: one action per loop iteration.       *)
(***************************************************************************)
LoopState ==
    [events |-> events, i |-> i, start_idx |-> start_idx, sublist |-> sublist,
     in_sublist |-> in_sublist]

SetLoopState(st) ==
    /\ events' = st.events
    /\ i' = st.i
    /\ start_idx' = st.start_idx
    /\ sublist' = st.sublist
    /\ in_sublist' = st.in_sublist

\* The event types the input histories are drawn from (None: no "type" key).
NormTypes ==
    {ParallelStateStarted, ParallelStateSucceeded, ParallelStateExited,
     TaskStateEntered, TaskStateExited, None}

\* The history whose n-th event has type types[n] and timestamp stamps[n].
History(types, stamps) ==
    [n \in 1..Len(types) |->
        IF types[n] = None THEN UntypedEvent(stamps[n], n)
        ELSE Event(stamps[n], types[n], n)]

\* The histories of up to max events over the given event types; all events of
\* one history carry the same timestamp (the events of one clock tick).
IsHistoryOver(h, types, max) ==
    \E len \in 0..max :
        \E ts \in [1..len -> types] :
            h = History(ts, [n \in 1..len |-> 0])

\* No list, describe or log await is in progress.
NoResource == [resource |-> None]

IdleHelper ==
    /\ helper = None
    /\ svc = NoResource
    /\ log_stream_name = ""

\* No poll_condition call is on the clock.
IdlePoller ==
    poller = [timeout |-> 0, interval |-> 0, true_from |-> 0,
              elapsed |-> 0, calls |-> 0, result |-> "idle"]

\* No concurrent awaits are in progress.
IdleConc ==
    /\ execs = <<>>
    /\ heap = <<>>
    /\ calls = <<>>

\* No call of transform, of log_deprecation_warnings or of
\* launch_and_record_logs is in progress.
IdleLater ==
    /\ tr = [pc |-> "idle"]
    /\ dep = [pc |-> "idle"]
    /\ launch = [pc |-> "idle"]
    /\ sqs = [pc |-> "idle"]

IdleAwait ==
    /\ srv = <<>>
    /\ hist_resp = NotFetched
    /\ aw_events = <<>>
    /\ check_func = None
    /\ polls = 0
    /\ aw_pc = "idle"

\* The locals on entry to _normalise_events(input).
NormEntry ==
    /\ events = input
    /\ i = 0
    /\ start_idx = NoStartIdx
    /\ sublist = <<>>
    /\ in_sublist = FALSE
    /\ pc = "loop"
    /\ pass = 1
    /\ first = <<>>

\* for i, event in enumerate(events): one iteration, or the exception that
\* ends the call.
Visit ==
    /\ pc = "loop"
    /\ ~LoopDone(LoopState)
    /\ IF IterationError(LoopState) # None
       THEN /\ pc' = "raised"
            /\ UNCHANGED <<events, i, start_idx, sublist, in_sublist>>
       ELSE /\ SetLoopState(LoopBody(LoopState))
            /\ pc' = pc
    /\ UNCHANGED <<input, pass, first>>
    /\ UNCHANGED <<awaitVars, helperVars, pollerVars, concVars, laterVars>>

\* The loop ends and _normalise_events returns.
Return ==
    /\ pc = "loop"
    /\ LoopDone(LoopState)
    /\ pc' = "done"
    /\ first' = IF pass = 1 THEN events ELSE first
    /\ UNCHANGED <<input, events, i, start_idx, sublist, in_sublist, pass>>
    /\ UNCHANGED <<awaitVars, helperVars, pollerVars, concVars, laterVars>>

\* _normalise_events is called again on the list the first call left.
CallAgain ==
    /\ pc = "done"
    /\ pass = 1
    /\ pass' = 2
    /\ pc' = "loop"
    /\ SetLoopState(LoopStart(events))
    /\ UNCHANGED <<input, first>>
    /\ UNCHANGED <<awaitVars, helperVars, pollerVars, concVars, laterVars>>

NextNorm == Visit \/ Return \/ CallAgain

InitNorm ==
    /\ IsHistoryOver(input, NormTypes, MaxLen)
    /\ NormEntry
    /\ IdleAwait
    /\ IdleHelper
    /\ IdlePoller
    /\ IdleConc
    /\ IdleLater

SpecNorm == InitNorm /\ [][NextNorm]_vars

\* Histories of up to MaxLongLen events over three event types: long enough for
\* a slice assignment to shorten the list past a later block.
LongTypes == {ParallelStateStarted, ParallelStateSucceeded, TaskStateEntered}

InitNormLong ==
    /\ IsHistoryOver(input, LongTypes, MaxLongLen)
    /\ NormEntry
    /\ IdleAwait
    /\ IdleHelper
    /\ IdlePoller
    /\ IdleConc
    /\ IdleLater

SpecNormLong == InitNormLong /\ [][NextNorm]_vars

\* The history of one run of a state machine with a Parallel state of two
\* branches: branch A emits X then Y, branch B emits Z.  order lists the three
\* branch events as the run interleaved them, stamps their timestamps.
ScenarioHistory(order, stamps) ==
    <<EventWith(0, ExecutionStarted, 1, "executionStartedEventDetails"),
      Event(0, ParallelStateStarted, 2)>>
    \o [n \in 1..3 |-> Event(stamps[order[n]], order[n], n + 2)]
    \o <<Event(MaxTs, ParallelStateSucceeded, 6),
         EventWith(MaxTs, ExecutionSucceeded, 7, "executionSucceededEventDetails")>>

\* X, Y and Z of the scenario.
ScenarioX == TaskStateEntered
ScenarioY == TaskStateExited
ScenarioZ == PassStateEntered

\* The interleavings of the two branches: X stays before Y.
ScenarioOrders ==
    {<<ScenarioX, ScenarioY, ScenarioZ>>, <<ScenarioX, ScenarioZ, ScenarioY>>,
     <<ScenarioZ, ScenarioX, ScenarioY>>}

ScenarioInputs ==
    {ScenarioHistory(order, stamps) :
        order \in ScenarioOrders,
        stamps \in [{ScenarioX, ScenarioY, ScenarioZ} -> 0..MaxTs]}

InitScenario ==
    /\ input \in ScenarioInputs
    /\ NormEntry
    /\ IdleAwait
    /\ IdleHelper
    /\ IdlePoller
    /\ IdleConc
    /\ IdleLater

SpecScenario == InitScenario /\ [][NextNorm]_vars

(***************************************************************************)
(* await_on_execution_events and its check functions.                      *)
(***************************************************************************)

\* hist_resp.get("events", [])
ResponseEvents(resp) == IF "events" \in DOMAIN resp THEN resp.events ELSE <<>>

RECURSIVE InsertByTimestamp(_, _)
\* x put into the sorted list s behind every event whose timestamp is not later.
InsertByTimestamp(x, s) ==
    IF Len(s) = 0 THEN <<x>>
    ELSE IF x.timestamp < s[1].timestamp THEN <<x>> \o s
    ELSE <<s[1]>> \o InsertByTimestamp(x, Tail(s))

\* The events as the fetch delivered them.
AsDelivered(s) == s

RECURSIVE SortedByTimestamp(_)
\* sorted(s, key=lambda event: event.get("timestamp")): a stable sort.
SortedByTimestamp(s) ==
    IF Len(s) = 0 THEN <<>>
    ELSE InsertByTimestamp(s[Len(s)], SortedByTimestamp(SubSeq(s, 1, Len(s) - 1)))

\* A check that is satisfied by a success marker on any event.
AnySucceeded(evs) ==
    \E n \in 1..Len(evs) : "executionSucceededEventDetails" \in DOMAIN evs[n]

\* The check function of await_execution_success.
_check_last_is_success(evs) ==
    IF Len(evs) > 0
    THEN "executionSucceededEventDetails" \in DOMAIN evs[Len(evs)]
    ELSE FALSE

\* A terminal set that also holds the type of the first event of an execution.
TerminalTypesWithStarted ==
    {ExecutionFailed, ExecutionAborted, ExecutionTimedOut, ExecutionSucceeded,
     ExecutionStarted}

\* The event types _is_last_history_event_terminal tests the last type against.
TerminalTypes ==
    {ExecutionFailed, ExecutionAborted, ExecutionTimedOut, ExecutionSucceeded}

\* The check function of await_execution_terminated.
_is_last_history_event_terminal(evs) ==
    IF Len(evs) > 0
    THEN LET last_event_type == event_type(evs[Len(evs)])
         IN last_event_type = None \/ last_event_type \in TerminalTypes
    ELSE FALSE

\* A check for the marker that takes an empty history for one that has it.
StartedOrEmpty(evs) ==
    IF Len(evs) > 0
    THEN "executionStartedEventDetails" \in DOMAIN evs[1]
    ELSE TRUE

\* A check for the marker on any event of the history.
AnyStarted(evs) ==
    \E n \in 1..Len(evs) : "executionStartedEventDetails" \in DOMAIN evs[n]

\* The check function of await_execution_started: the loop returns on its
\* first iteration.
_check_stated_exists(evs) ==
    IF Len(evs) > 0
    THEN "executionStartedEventDetails" \in DOMAIN evs[1]
    ELSE FALSE

\* The three awaits built on await_on_execution_events, by their check function.
CheckFuncs == {"_check_last_is_success", "_is_last_history_event_terminal",
               "_check_stated_exists"}

ApplyCheck(f, evs) ==
    CASE f = "_check_last_is_success" -> _check_last_is_success(evs)
      [] f = "_is_last_history_event_terminal" -> _is_last_history_event_terminal(evs)
      [] f = "_check_stated_exists" -> _check_stated_exists(evs)

\* A condition that keeps what the accumulator held.
NotCleared(acc) == acc

\* events.clear()
Cleared(acc) == <<>>

\* _run_check on the accumulator acc, with resp the outcome of the fetch: the
\* accumulator as it leaves it, and its result.
_run_check(acc, resp, f) ==
    IF resp = ClientError
    THEN [events |-> Cleared(acc), res |-> FALSE]
    ELSE LET evs == Cleared(acc) \o SortedByTimestamp(ResponseEvents(resp))
         IN [events |-> evs, res |-> ApplyCheck(f, evs)]

\* poll_condition, after an evaluation of the condition that gave res, the
\* made-th of the call: "true" (it returns True), "false" (the timeout is
\* used up, it returns False) or "again" (it sleeps and evaluates again).
\* MaxPolls evaluations fit into the timeout.
poll_condition(res, made) ==
    IF res THEN "true" ELSE IF made >= MaxPolls THEN "false" ELSE "again"

\* The details key the service gives an event of a type.
DetailsKey(type) ==
    CASE type = ExecutionStarted -> "executionStartedEventDetails"
      [] type = ExecutionSucceeded -> "executionSucceededEventDetails"
      [] type = ExecutionFailed -> "executionFailedEventDetails"
      [] type = ExecutionAborted -> "executionAbortedEventDetails"
      [] type = ExecutionTimedOut -> "executionTimedOutEventDetails"
      [] OTHER -> "stateEnteredEventDetails"

\* The event types the service emits (None: a record without a "type" key).
ServiceTypes ==
    {ExecutionStarted, TaskStateEntered, ExecutionSucceeded, ExecutionFailed,
     ExecutionAborted, ExecutionTimedOut, None}

\* The n-th event of a history, of the given type, at time ts.
ServiceEvent(type, ts, n) ==
    IF type = None THEN UntypedEvent(ts, n)
    ELSE EventWith(ts, type, n, DetailsKey(type))

LastTimestamp(h) == IF Len(h) = 0 THEN 0 ELSE h[Len(h)].timestamp

Reversed(h) == [n \in 1..Len(h) |-> h[Len(h) + 1 - n]]

\* What a get_execution_history call may give: a ClientError, or the whole
\* history in either order.
Responses(h) == {ClientError, [events |-> h], [events |-> Reversed(h)]}

IdleNorm ==
    /\ input = <<>>
    /\ events = <<>>
    /\ i = 0
    /\ start_idx = NoStartIdx
    /\ sublist = <<>>
    /\ in_sublist = FALSE
    /\ pc = "idle"
    /\ pass = 0
    /\ first = <<>>

\* await_on_execution_events is called with one of the check functions; the
\* execution has emitted nothing yet.
InitAwait ==
    /\ srv = <<>>
    /\ hist_resp = NotFetched
    /\ aw_events = <<>>
    /\ check_func \in CheckFuncs
    /\ polls = 0
    /\ aw_pc = "polling"
    /\ IdleNorm
    /\ IdleHelper
    /\ IdlePoller
    /\ IdleConc
    /\ IdleLater

\* The execution emits its next event, not earlier than its last one.
ServiceEmit ==
    /\ aw_pc = "polling"
    /\ Len(srv) < MaxHist
    /\ \E type \in ServiceTypes :
       \E ts \in {t \in {LastTimestamp(srv), LastTimestamp(srv) + 1} : t <= MaxTs} :
          srv' = Append(srv, ServiceEvent(type, ts, Len(srv) + 1))
    /\ UNCHANGED <<hist_resp, aw_events, check_func, polls, aw_pc>>
    /\ UNCHANGED <<normVars, helperVars, pollerVars, concVars, laterVars>>

\* poll_condition evaluates _run_check once; await_on_execution_events returns
\* the accumulator when poll_condition returns True, and its assert raises when
\* poll_condition returns False.
Poll ==
    /\ aw_pc = "polling"
    /\ \E resp \in Responses(srv) :
          LET r == _run_check(aw_events, resp, check_func)
              p == poll_condition(r.res, polls + 1)
          IN /\ hist_resp' = resp
             /\ aw_events' = r.events
             /\ polls' = polls + 1
             /\ aw_pc' = CASE p = "true" -> "returned"
                           [] p = "false" -> "raised"
                           [] OTHER -> "polling"
    /\ UNCHANGED <<srv, check_func>>
    /\ UNCHANGED <<normVars, helperVars, pollerVars, concVars, laterVars>>

NextAwait == ServiceEmit \/ Poll

SpecAwait == InitAwait /\ [][NextAwait]_vars

(***************************************************************************)
(* Properties of the normaliser.                                           *)
(***************************************************************************)
Done1 == pc = "done" /\ pass = 1
Done2 == pc = "done" /\ pass = 2

IsTyped(event) == event_type(event) # None
IsClosing(event) == IsTyped(event) /\ event_type(event) \in ClosingTypes
IsStart(event) == event_type(event) = ParallelStateStarted
\* Neither a marker of a Parallel state nor an untyped record.
IsOrdinary(event) == IsTyped(event) /\ ~IsClosing(event) /\ ~IsStart(event)

\* An event without its identity fields.
Payload(event) ==
    [k \in DOMAIN event \ {"id", "previousEventId"} |-> event[k]]

CountPayload(h, x) == Cardinality({n \in 1..Len(h) : Payload(h[n]) = x})

\* h[s] opens a block that h[e] bounds: only ordinary events lie between.
IsBlock(h, s, e) ==
    /\ s < e
    /\ IsStart(h[s])
    /\ IsClosing(h[e]) \/ ~IsTyped(h[e])
    /\ \A q \in (s + 1)..(e - 1) : IsOrdinary(h[q])

\* As IsBlock, with a closing marker (not an untyped record) as the bound.
IsClosedBlock(h, s, e) == IsBlock(h, s, e) /\ IsClosing(h[e])

\* The bijections of a set of positions onto itself.
Bijections(S) == {f \in [S -> S] : \A a, b \in S : f[a] = f[b] => a = b}

\* h with the events at the positions of f's domain rearranged by f.
Rearranged(h, f) ==
    [n \in 1..Len(h) |-> IF n \in DOMAIN f THEN h[f[n]] ELSE h[n]]

\* h[p] lies in a block: the nearest event before it that is not ordinary is a
\* ParallelStateStarted marker.
InsideBlock(h, p) ==
    /\ IsOrdinary(h[p])
    /\ \E s \in 1..(p - 1) :
          /\ IsStart(h[s])
          /\ \A q \in (s + 1)..(p - 1) : IsOrdinary(h[q])

OutsideEvents(h) == {h[p] : p \in {q \in 1..Len(h) : ~InsideBlock(h, q)}}

\* C1: normalising the result of a normalisation changes nothing:
\* normalise(normalise(h)) = normalise(h) for every history h.
C1_Idempotent == Done2 => events = first

\* C2: the normaliser neither adds nor drops events: the output has as many
\* events as the input and the same multiset of events without id and
\* previousEventId.
C2_NoEventAddedOrDropped ==
    Done1 =>
        /\ Len(events) = Len(input)
        /\ \A n \in 1..Len(input) :
              CountPayload(events, Payload(input[n]))
                = CountPayload(input, Payload(input[n]))

\* C3: two histories that differ only by a permutation of the events of one
\* block (the events after a ParallelStateStarted marker up to the block's
\* closing boundary) normalise to the same list.
C3_OrderIndependent ==
    Done1 =>
        \A s, e \in 1..Len(input) :
            IsBlock(input, s, e) =>
                \A f \in Bijections((s + 1)..(e - 1)) :
                    _normalise_events(Rearranged(input, f)) = events

\* C4: a history without a ParallelStateStarted event is returned unchanged,
\* closing markers or not.
C4_PassthroughNoBlocks ==
    (Done1 /\ \A n \in 1..Len(input) : ~IsStart(input[n])) => events = input

\* C6: in the output, the events between a ParallelStateStarted marker and a
\* closing marker that follows it with only ordinary events in between are in
\* non-decreasing order of their serialized form and carry the sentinel
\* identity, id (0,) and previousEventId 0.
C6_ClosedBlockCanonical ==
    Done1 =>
        \A s, e \in 1..Len(events) :
            IsClosedBlock(events, s, e) =>
                /\ \A q \in (s + 1)..(e - 2) :
                      ~StrLess(to_json_str(events[q + 1]), to_json_str(events[q]))
                /\ \A q \in (s + 1)..(e - 1) :
                      /\ events[q].id = SentinelId
                      /\ events[q].previousEventId = 0

\* C7: the events outside every block (those before the first
\* ParallelStateStarted, the markers, the events after a closing marker) are in
\* the output as they were in the input, in their original relative order.
C7_OutsideEventsPassThrough ==
    Done1 =>
        SelectSeq(events, LAMBDA x : x \in OutsideEvents(input))
          = SelectSeq(input, LAMBDA x : x \in OutsideEvents(input))

\* The list h holds its events in non-decreasing order of their serialized form.
SortedBySerializedForm(h) ==
    \A q \in 1..(Len(h) - 1) : ~StrLess(to_json_str(h[q + 1]), to_json_str(h[q]))

\* The canonical form of the scenario: the markers and the top-level events as
\* they were, the three branch events between them sorted, with the sentinel
\* identity, and the same whatever the interleaving of the run was.
ScenarioCanonical ==
    /\ \A n \in {1, 2, Len(events) - 1, Len(events)} :
          n \in 1..Len(events) /\ events[n] = input[n + Len(input) - Len(events)]
    /\ Len(events) >= 5
    /\ \A n \in 3..5 : events[n].id = SentinelId /\ events[n].previousEventId = 0
    /\ SortedBySerializedForm(SubSeq(events, 3, 5))
    /\ \A n \in 3..5 : CountPayload(events, Payload(input[n]))
                         = CountPayload(input, Payload(input[n]))
    /\ \A f \in Bijections(3..5) :
          _normalise_events(Rearranged(input, f)) = events

\* C5 (as amended): the scenario history, whichever way the branch events X, Y
\* and Z were interleaved, normalises to one canonical sequence of 7 events:
\* the three branch events sorted and with the sentinel identity, the other
\* four events untouched.
C5_ScenarioSevenEvents == Done1 => (Len(events) = 7 /\ ScenarioCanonical)

\* C5 (as stated): ... to one canonical sequence of 6 events.
C5_ScenarioSixEvents == Done1 => (Len(events) = 6 /\ ScenarioCanonical)

\* The run interleaved the branches as Z, X, Y and the normaliser moved Z.
C5_Witness ==
    /\ Done1
    /\ input[3].type = ScenarioZ
    /\ events[3].type # ScenarioZ
    /\ Len(events) = 7

(***************************************************************************)
(* Properties of the awaits.                                               *)
(***************************************************************************)
Returned == aw_pc = "returned"

CountEvent(h, x) == Cardinality({n \in 1..Len(h) : h[n] = x})

\* C8 (as stated): await_execution_terminated returns a history only if the
\* last event of the latest fetched history has one of the types
\* ExecutionSucceeded, ExecutionFailed, ExecutionAborted, ExecutionTimedOut.
C8_ReturnsOnlyOnTerminalType ==
    (Returned /\ check_func = "_is_last_history_event_terminal") =>
        /\ Len(aw_events) > 0
        /\ event_type(aw_events[Len(aw_events)])
             \in {ExecutionSucceeded, ExecutionFailed, ExecutionAborted,
                  ExecutionTimedOut}

\* C8 (as amended): await_execution_terminated returns a history only if the
\* last event of the latest fetched history has one of the types
\* ExecutionSucceeded, ExecutionFailed, ExecutionAborted, ExecutionTimedOut, or
\* has no type at all.
C8_ReturnsOnlyOnTerminalOrUntyped ==
    (Returned /\ check_func = "_is_last_history_event_terminal") =>
        /\ Len(aw_events) > 0
        /\ \/ ~IsTyped(aw_events[Len(aw_events)])
           \/ event_type(aw_events[Len(aw_events)])
                \in {ExecutionSucceeded, ExecutionFailed, ExecutionAborted,
                     ExecutionTimedOut}

\* await_execution_terminated has returned a history of two events that ends
\* with ExecutionTimedOut.
C8_Witness ==
    /\ Returned
    /\ check_func = "_is_last_history_event_terminal"
    /\ Len(aw_events) = 2
    /\ event_type(aw_events[2]) = ExecutionTimedOut

\* C9: an await on the execution events returns only on a fetch that gave at
\* least one event: while every fetch gives no events or fails with
\* ClientError, none of the three awaits returns a history.
C9_EmptyHistoryNeverSatisfies ==
    Returned =>
        /\ hist_resp # ClientError
        /\ hist_resp # NotFetched
        /\ Len(ResponseEvents(hist_resp)) > 0
        /\ Len(aw_events) > 0

\* The execution has emitted nothing, every evaluation of the condition was
\* made on an empty history or a ClientError, and the await raised.
C9_Witness ==
    /\ aw_pc = "raised"
    /\ srv = <<>>
    /\ polls = MaxPolls
    /\ aw_events = <<>>

\* C10: the history an await returns holds exactly the events of the latest
\* fetch, each as often as the fetch gave it: nothing of an earlier poll stays
\* in the accumulator and nothing is in it twice.
C10_ReturnsLatestFetch ==
    Returned =>
        /\ hist_resp # ClientError
        /\ hist_resp # NotFetched
        /\ Len(aw_events) = Len(ResponseEvents(hist_resp))
        /\ \A n \in 1..Len(aw_events) :
              CountEvent(aw_events, aw_events[n])
                = CountEvent(ResponseEvents(hist_resp), aw_events[n])

\* The await returned on its third poll, with a history of two events.
C10_Witness ==
    /\ Returned
    /\ polls = 3
    /\ Len(aw_events) = 2

(***************************************************************************)
(* The list, describe and log awaits: one poll_condition call on a         *)
(* condition that fetches a resource of the service.                       *)
(***************************************************************************)

\* The ARN the helper is called with, and another one of the same service.
TargetArn == "arn:target"
OtherArn == "arn:other"

RUNNING == "RUNNING"
SUCCEEDED == "SUCCEEDED"
ABORTED == "ABORTED"

ValidationStream == "log_stream_created_by_aws_to_validate_log_delivery_subscriptions"
ExecutionStream == "states/target/execution"

\* Helpers that give poll_condition a timeout and log a warning when it
\* returns False.
WarningHelpers ==
    {"await_no_state_machines_listed",
     "await_state_machine_alias_is_created", "await_state_machine_alias_is_deleted",
     "await_state_machine_not_listed", "await_state_machine_listed",
     "await_state_machine_version_not_listed", "await_state_machine_version_listed",
     "await_list_execution_status", "await_execution_lists_terminated",
     "await_execution_aborted"}

\* Helpers that call poll_condition without a timeout and assert its result.
LogHelpers == {"_await_on_execution_log_stream_created", "await_on_execution_logs"}

Helpers == WarningHelpers \cup LogHelpers \cup {"await_on_execution_events"}

\* Every helper, as if each condition caught the ClientError of its fetch.
CatchingAll == Helpers

\* The helpers whose condition wraps its fetch in try/except ClientError.
Catching == LogHelpers \cup {"await_on_execution_events"}

\* Every helper, as if each asserted the result of poll_condition.
AssertingAll == Helpers

\* The helpers asserting the result of poll_condition rather than logging a warning.
Asserting == LogHelpers \cup {"await_on_execution_events"}

\* The helpers that pass a timeout to poll_condition.
Timed == WarningHelpers \cup {"await_on_execution_events"}

\* _is_empty_state_machine_list on the response of list_state_machines.
_is_empty_state_machine_list(lst_resp) == Len(lst_resp.stateMachines) = 0

\* _is_state_machine_alias_listed on the response of list_state_machine_aliases.
_is_state_machine_alias_listed(lst_resp, state_machine_alias_arn) ==
    \E n \in 1..Len(lst_resp.stateMachineAliases) :
        lst_resp.stateMachineAliases[n].stateMachineAliasArn = state_machine_alias_arn

\* _is_state_machine_version_listed on the response of
\* list_state_machine_versions.
_is_state_machine_version_listed(lst_resp, state_machine_version_arn) ==
    \E n \in 1..Len(lst_resp.stateMachineVersions) :
        lst_resp.stateMachineVersions[n].stateMachineVersionArn
            = state_machine_version_arn

\* A check that any listed execution has left RUNNING, whichever it is.
AnyListedIsTerminal(list_output, execution_arn) ==
    \E n \in 1..Len(list_output.executions) :
        list_output.executions[n].status # RUNNING

\* _is_state_machine_listed on the response of list_state_machines.
_is_state_machine_listed(lst_resp, state_machine_arn) ==
    \E n \in 1..Len(lst_resp.stateMachines) :
        lst_resp.stateMachines[n].stateMachineArn = state_machine_arn

\* The condition of await_list_execution_status on the response of list_executions.
ListedWithStatus(list_resp, execution_arn, status) ==
    LET executions == IF "executions" \in DOMAIN list_resp
                      THEN list_resp.executions ELSE <<>>
    IN \E n \in 1..Len(executions) :
          ~(executions[n].executionArn # execution_arn \/ executions[n].status # status)

\* _check_last_is_terminal of await_execution_lists_terminated: the first
\* listed execution with the ARN decides.
_check_last_is_terminal(list_output, execution_arn) ==
    LET executions == list_output.executions
        hits == {n \in 1..Len(executions) : executions[n].executionArn = execution_arn}
    IN IF hits = {} THEN FALSE
       ELSE LET n == CHOOSE m \in hits : \A k \in hits : m <= k
            IN executions[n].status # RUNNING

\* The condition of await_execution_aborted on the response of describe_execution.
IsAborted(desc_res) == desc_res.status = ABORTED

\* _run_check of _await_on_execution_log_stream_created on the response of
\* describe_log_streams: the name it leaves in log_stream_name and its result.
LogStreamCheck(name, resp) ==
    LET log_streams == resp.logStreams
    IN IF Len(log_streams) = 0 THEN [name |-> name, res |-> FALSE]
       ELSE LET last == log_streams[Len(log_streams)].logStreamName
            IN [name |-> last, res |-> last # ValidationStream]

\* The list the caller of await_on_execution_logs expects the logs to match.
ExpectedLogs == <<TaskStateEntered>>

\* is_execution_logs_list_complete(expected_events)(log_events)
is_execution_logs_list_complete(expected_events, log_events) ==
    IF Len(expected_events) = 0 THEN TRUE
    ELSE Len(expected_events) = Len(log_events)

\* [json.loads(e["message"]) for e in log_events]: a message is held as the
\* value it parses to.
LogMessages(log_events) == [n \in 1..Len(log_events) |-> log_events[n].message]

\* The target status of await_list_execution_status.
WantedStatus == SUCCEEDED

\* The longest listing the service returns, and the most log events of a stream.
MaxListing == 2
MaxLogs == 2

\* The sequences of up to max elements of a set.
SeqsUpTo(set, max) == UNION {[1..len -> set] : len \in 0..max}

\* What the service may hold of the resource a helper fetches.
ResourceValues(h) ==
    CASE h \in {"await_state_machine_alias_is_created",
                "await_state_machine_alias_is_deleted"} ->
            {[stateMachineAliases |-> l] :
                l \in SeqsUpTo({[stateMachineAliasArn |-> a] : a \in {TargetArn, OtherArn}},
                               MaxListing)}
      [] h \in {"await_state_machine_version_not_listed",
                "await_state_machine_version_listed"} ->
            {[stateMachineVersions |-> l] :
                l \in SeqsUpTo({[stateMachineVersionArn |-> a] :
                                   a \in {TargetArn, OtherArn}},
                               MaxListing)}
      [] h \in {"await_no_state_machines_listed", "await_state_machine_not_listed",
                "await_state_machine_listed"} ->
            {[stateMachines |-> l] :
                l \in SeqsUpTo({[stateMachineArn |-> a] : a \in {TargetArn, OtherArn}},
                               MaxListing)}
      [] h \in {"await_list_execution_status", "await_execution_lists_terminated"} ->
            {[executions |-> l] :
                l \in SeqsUpTo({[executionArn |-> a, status |-> s] :
                                   a \in {TargetArn, OtherArn},
                                   s \in {RUNNING, SUCCEEDED}},
                               MaxListing)}
      [] h = "await_execution_aborted" ->
            {[status |-> s] : s \in {RUNNING, SUCCEEDED, ABORTED}}
      [] h = "_await_on_execution_log_stream_created" ->
            {[logStreams |-> l, events |-> <<>>] :
                l \in SeqsUpTo({[logStreamName |-> n] :
                                   n \in {ValidationStream, ExecutionStream}},
                               MaxListing)}
      [] h = "await_on_execution_logs" ->
            {[logStreams |-> l, events |-> e] :
                l \in {<<>>, <<[logStreamName |-> ValidationStream]>>,
                       <<[logStreamName |-> ValidationStream],
                         [logStreamName |-> ExecutionStream]>>},
                e \in SeqsUpTo({[message |-> TaskStateEntered]}, MaxLogs)}
      [] OTHER -> {NoResource}

\* The condition of a list, describe or log await, with resp the outcome of its
\* fetch: its result ("raise": the ClientError leaves the condition), and the
\* locals log_stream_name and events as it leaves them.  phase tells the two
\* poll loops of await_on_execution_logs apart.
Condition(h, phase, resp, name, acc) ==
    IF resp = ClientError
    THEN [res |-> IF h \in Catching THEN "false" ELSE "raise",
          name |-> name, events |-> <<>>]
    ELSE CASE h = "await_no_state_machines_listed" ->
                [res |-> IF _is_empty_state_machine_list(resp)
                         THEN "true" ELSE "false",
                 name |-> name, events |-> acc]
           [] h = "await_state_machine_alias_is_created" ->
                [res |-> IF _is_state_machine_alias_listed(resp, TargetArn)
                         THEN "true" ELSE "false",
                 name |-> name, events |-> acc]
           [] h = "await_state_machine_alias_is_deleted" ->
                [res |-> IF ~_is_state_machine_alias_listed(resp, TargetArn)
                         THEN "true" ELSE "false",
                 name |-> name, events |-> acc]
           [] h = "await_state_machine_version_listed" ->
                [res |-> IF _is_state_machine_version_listed(resp, TargetArn)
                         THEN "true" ELSE "false",
                 name |-> name, events |-> acc]
           [] h = "await_state_machine_version_not_listed" ->
                [res |-> IF ~_is_state_machine_version_listed(resp, TargetArn)
                         THEN "true" ELSE "false",
                 name |-> name, events |-> acc]
           [] h = "await_state_machine_listed" ->
                [res |-> IF _is_state_machine_listed(resp, TargetArn)
                         THEN "true" ELSE "false",
                 name |-> name, events |-> acc]
           [] h = "await_state_machine_not_listed" ->
                [res |-> IF ~_is_state_machine_listed(resp, TargetArn)
                         THEN "true" ELSE "false",
                 name |-> name, events |-> acc]
           [] h = "await_list_execution_status" ->
                [res |-> IF ListedWithStatus(resp, TargetArn, WantedStatus)
                         THEN "true" ELSE "false",
                 name |-> name, events |-> acc]
           [] h = "await_execution_lists_terminated" ->
                [res |-> IF _check_last_is_terminal(resp, TargetArn)
                         THEN "true" ELSE "false",
                 name |-> name, events |-> acc]
           [] h = "await_execution_aborted" ->
                [res |-> IF IsAborted(resp) THEN "true" ELSE "false",
                 name |-> name, events |-> acc]
           [] h \in LogHelpers /\ phase = "polling_stream" ->
                LET c == LogStreamCheck(name, resp)
                IN [res |-> IF c.res THEN "true" ELSE "false",
                    name |-> c.name, events |-> acc]
           [] h = "await_on_execution_logs" /\ phase = "polling" ->
                LET evs == LogMessages(resp.events)
                IN [res |-> IF is_execution_logs_list_complete(ExpectedLogs, evs)
                            THEN "true" ELSE "false",
                    name |-> name, events |-> evs]

\* poll_condition called without a timeout, after an evaluation of the
\* condition that gave res: nothing but a true condition ends it.
poll_condition_no_timeout(res) == IF res THEN "true" ELSE "again"

\* The poll_condition call of a helper after the made-th evaluation of its
\* condition gave res.
PollOutcome(h, res, made) ==
    IF h \in Timed THEN poll_condition(res, made) ELSE poll_condition_no_timeout(res)

\* Where a helper is after poll_condition gave p ("raise": the condition
\* raised): "returned", "warned" (LOG.warning, then the end of the function),
\* "raised" (the assert failed), "raised ClientError", or in a poll loop.
Ending(h, phase, p) ==
    CASE p = "raise" -> "raised ClientError"
      [] p = "true" -> IF h = "await_on_execution_logs" /\ phase = "polling_stream"
                       THEN "polling" ELSE "returned"
      [] p = "false" -> IF h \in Asserting THEN "raised" ELSE "warned"
      [] OTHER -> phase

PollingStates == {"polling", "polling_stream"}

\* One of the helpers is called.
InitHelpers ==
    /\ helper \in Helpers
    /\ svc \in ResourceValues(helper)
    /\ log_stream_name = ""
    /\ srv = <<>>
    /\ hist_resp = NotFetched
    /\ aw_events = <<>>
    /\ check_func \in IF helper = "await_on_execution_events" THEN CheckFuncs ELSE {None}
    /\ polls = 0
    /\ aw_pc = IF helper \in LogHelpers THEN "polling_stream" ELSE "polling"
    /\ IdleNorm
    /\ IdlePoller
    /\ IdleConc
    /\ IdleLater

\* The service changes the resource the helper polls.
ServiceChange ==
    /\ helper # "await_on_execution_events"
    /\ aw_pc \in PollingStates
    /\ svc' \in ResourceValues(helper) \ {svc}
    /\ UNCHANGED <<helper, log_stream_name>>
    /\ UNCHANGED <<normVars, awaitVars, pollerVars, concVars, laterVars>>

\* poll_condition evaluates the condition of a list, describe or log await
\* once, and the helper goes on from the result.  The count of evaluations
\* stops at MaxPolls.
HelperPoll ==
    /\ helper # "await_on_execution_events"
    /\ aw_pc \in PollingStates
    /\ \E resp \in {ClientError, svc} :
          LET c == Condition(helper, aw_pc, resp, log_stream_name, aw_events)
              p == IF c.res = "raise" THEN "raise"
                   ELSE PollOutcome(helper, c.res = "true", polls + 1)
          IN /\ hist_resp' = resp
             /\ log_stream_name' = c.name
             /\ aw_events' = c.events
             /\ aw_pc' = Ending(helper, aw_pc, p)
             /\ polls' = IF aw_pc' = "polling" /\ aw_pc = "polling_stream" THEN 0
                         ELSE IF polls < MaxPolls THEN polls + 1 ELSE polls
    /\ UNCHANGED <<srv, check_func, helper, svc>>
    /\ UNCHANGED <<normVars, pollerVars, concVars, laterVars>>

\* A step of await_on_execution_events or of its execution.
HistoryStep ==
    /\ helper = "await_on_execution_events"
    /\ (ServiceEmit \/ Poll)

NextHelpers == HistoryStep \/ ServiceChange \/ HelperPoll

SpecHelpers == InitHelpers /\ [][NextHelpers]_vars

(***************************************************************************)
(* Properties of the await helpers.                                        *)
(***************************************************************************)

\* poll_condition returned False: its timeout was used up.
Exhausted == aw_pc \in {"warned", "raised"}

\* What the caller of a helper gets when the helper ends as `ending`.
CallerSees(h, ending) ==
    CASE ending = "returned" ->
            IF h \in WarningHelpers THEN "returns None"
            ELSE IF h = "_await_on_execution_log_stream_created"
                 THEN "returns log_stream_name"
                 ELSE "returns events"
      [] ending = "warned" -> "returns None"
      [] ending = "raised" -> "raises AssertionError"
      [] ending = "raised ClientError" -> "raises ClientError"

\* C11, as claimed: no await helper lets the ClientError of its fetch reach its
\* caller.
C11_ErrorNeverPropagated == aw_pc # "raised ClientError"

\* C11, amended: a ClientError raised by the fetch counts as "not yet true" in
\* the history awaits and the log awaits only (polling goes on while evaluations
\* are left); in the list and describe awaits it ends the call and reaches the
\* caller.
C11_ErrorSwallowedOnlyWhereCaught ==
    /\ hist_resp = ClientError =>
          IF helper \in WarningHelpers
          THEN aw_pc = "raised ClientError"
          ELSE /\ aw_pc # "raised ClientError"
               /\ polls < MaxPolls => aw_pc \in PollingStates
    /\ aw_pc = "raised ClientError" =>
          helper \in WarningHelpers /\ hist_resp = ClientError

\* A history await whose latest fetch raised ClientError and that is polling on.
C11_Witness ==
    /\ helper = "await_on_execution_events"
    /\ hist_resp = ClientError
    /\ polls >= 1
    /\ aw_pc = "polling"

\* C12, as claimed: when poll_condition returns False, no helper ends for its
\* caller the way it ends when poll_condition returns True.
C12_TimeoutDiffersFromSuccess ==
    Exhausted => CallerSees(helper, aw_pc) # CallerSees(helper, "returned")

\* C12, amended: on timeout the helpers built on await_on_execution_events
\* raise AssertionError; the list and describe awaits log a warning and return
\* None, which is what they return on success; the log awaits, polling
\* without a timeout, never get there.
C12_TimeoutSignalledOnlyByAssert ==
    Exhausted =>
        /\ polls = MaxPolls
        /\ helper \notin LogHelpers
        /\ IF helper = "await_on_execution_events"
           THEN /\ CallerSees(helper, aw_pc) = "raises AssertionError"
                /\ CallerSees(helper, "returned") = "returns events"
           ELSE /\ helper \in WarningHelpers
                /\ CallerSees(helper, aw_pc) = "returns None"
                /\ CallerSees(helper, "returned") = "returns None"

\* A list await whose polling was exhausted and that returned after its warning.
C12_Witness ==
    /\ helper = "await_state_machine_not_listed"
    /\ polls = MaxPolls
    /\ aw_pc = "warned"
    /\ _is_state_machine_listed(svc, TargetArn)

\* C13: an await call that is still polling has evaluated its condition
\* fewer times than fit into its timeout, so no call goes on polling after
\* that many evaluations.
C13_EveryAwaitStops == aw_pc \in PollingStates => polls < MaxPolls

(***************************************************************************)
(* poll_condition on a clock: the condition is evaluated, and while it is  *)
(* false and the timeout is not exceeded the call sleeps one interval.     *)
(* Times are in milliseconds; an evaluation takes no time.                 *)
(***************************************************************************)
MaxTimeoutSteps == 5
MaxTrueFrom == 4

Timeouts == {50 * k : k \in 1..MaxTimeoutSteps}
Intervals == {50, 100}

\* The condition polled: false on its first calls and true from its
\* true_from-th call on; never true when true_from is 0.
ConditionAt(true_from, call) == true_from > 0 /\ call >= true_from

\* A poller that takes any elapsed time for a used-up timeout.
TimedOutAtOnce(elapsed, timeout) == TRUE

\* The cumulative elapsed time exceeds the timeout.
TimedOut(elapsed, timeout) == elapsed > timeout

\* A poller that does not end on a true condition.
IgnoresTrue(res) == FALSE

\* The poll ends with success when the condition returned true.
EndsOnTrue(res) == res

\* One evaluation of the condition by the poller p.
Evaluate(p) ==
    LET n == p.calls + 1
        res == ConditionAt(p.true_from, n)
    IN [p EXCEPT !.calls = n,
                 !.result = IF EndsOnTrue(res) THEN "true"
                            ELSE IF TimedOut(p.elapsed, p.timeout) THEN "false"
                            ELSE "sleeping"]

\* The sleep of one interval between two evaluations.
Sleep(p) == [p EXCEPT !.elapsed = p.elapsed + p.interval, !.result = "evaluating"]

InitPoller ==
    /\ \E timeout \in Timeouts, interval \in Intervals, true_from \in 0..MaxTrueFrom :
          poller = [timeout |-> timeout, interval |-> interval, true_from |-> true_from,
                    elapsed |-> 0, calls |-> 0, result |-> "evaluating"]
    /\ IdleNorm
    /\ IdleAwait
    /\ IdleHelper
    /\ IdleConc
    /\ IdleLater

PollerEvaluate ==
    /\ poller.result = "evaluating"
    /\ poller' = Evaluate(poller)
    /\ UNCHANGED <<normVars, awaitVars, helperVars, concVars, laterVars>>

PollerSleep ==
    /\ poller.result = "sleeping"
    /\ poller' = Sleep(poller)
    /\ UNCHANGED <<normVars, awaitVars, helperVars, concVars, laterVars>>

NextPoller == PollerEvaluate \/ PollerSleep

SpecPoller == InitPoller /\ [][NextPoller]_vars

\* C14: a poll of a condition that is never true, with a timeout of 200 ms and
\* an interval of 50 ms, does not return true, and when it returns false at
\* least 200 ms and less than 400 ms have elapsed, one interval for each
\* evaluation but the last.
C14_PollerTimeout ==
    (poller.timeout = 200 /\ poller.interval = 50 /\ poller.true_from = 0) =>
        /\ poller.result # "true"
        /\ poller.elapsed = (IF poller.result = "evaluating"
                             THEN poller.calls ELSE poller.calls - 1) * poller.interval
        /\ poller.elapsed < 400
        /\ poller.result = "false" => poller.elapsed >= 200

\* The poll of C14 has returned false.
C14_Witness ==
    /\ poller.timeout = 200 /\ poller.interval = 50 /\ poller.true_from = 0
    /\ poller.result = "false"

\* C15: for a condition that is false on its first two calls and true from the
\* third, and a timeout longer than two intervals, the poll does not return
\* false, never calls the condition a fourth time, and has called it three
\* times when it returns true.
C15_PollerSuccess ==
    (poller.true_from = 3 /\ 2 * poller.interval < poller.timeout) =>
        /\ poller.result # "false"
        /\ poller.calls <= 3
        /\ poller.result = "true" => poller.calls = 3

\* The poll of C15 has returned true after its third call.
C15_Witness ==
    /\ poller.true_from = 3 /\ 2 * poller.interval < poller.timeout
    /\ poller.result = "true"
    /\ poller.calls = 3

(***************************************************************************)
(* Properties of await_on_execution_events, continued.                     *)
(***************************************************************************)

\* The latest fetch gave a history, which _run_check sorted into the
\* accumulator and handed to check_func.
Handed == hist_resp # ClientError /\ hist_resp # NotFetched

\* The position of an event in a history without duplicates.
PositionIn(h, x) == CHOOSE n \in 1..Len(h) : h[n] = x

\* C16, as claimed: the history handed to check_func is ordered by timestamp,
\* events of equal timestamp by ascending id, whatever order they came in.
C16_OrderedByTimestampThenId ==
    Handed =>
        \A a, b \in 1..Len(aw_events) :
            a < b =>
                \/ aw_events[a].timestamp < aw_events[b].timestamp
                \/ /\ aw_events[a].timestamp = aw_events[b].timestamp
                   /\ aw_events[a].id.int < aw_events[b].id.int

\* C16, amended: the history handed to check_func holds the fetched events
\* ordered by timestamp, and events of equal timestamp stay in the order in
\* which the fetch delivered them.
C16_OrderedByTimestampStable ==
    Handed =>
        LET delivered == ResponseEvents(hist_resp)
        IN /\ Len(aw_events) = Len(delivered)
           /\ \A n \in 1..Len(delivered) : CountEvent(aw_events, delivered[n]) = 1
           /\ \A a, b \in 1..Len(aw_events) :
                 a < b =>
                    \/ aw_events[a].timestamp < aw_events[b].timestamp
                    \/ /\ aw_events[a].timestamp = aw_events[b].timestamp
                       /\ PositionIn(delivered, aw_events[a])
                             < PositionIn(delivered, aw_events[b])

\* A fetch delivered two events latest first, and the sort put them in order.
C16_Witness ==
    /\ Handed
    /\ Len(aw_events) = 2
    /\ ResponseEvents(hist_resp) = Reversed(aw_events)
    /\ aw_events[1].timestamp < aw_events[2].timestamp

\* C17: await_execution_started returns only a non-empty history whose first
\* event, in the order of the sorted accumulator, carries
\* executionStartedEventDetails; the marker on a later event does not count.
C17_StartedOnlyOnFirstEvent ==
    (Returned /\ check_func = "_check_stated_exists") =>
        /\ Handed
        /\ Len(ResponseEvents(hist_resp)) > 0
        /\ Len(aw_events) > 0
        /\ "executionStartedEventDetails" \in DOMAIN aw_events[1]

\* await_execution_started was handed a history whose second event carries the
\* marker and whose first does not, and did not return.
C17_Witness ==
    /\ check_func = "_check_stated_exists"
    /\ Handed
    /\ Len(aw_events) = 2
    /\ "executionStartedEventDetails" \notin DOMAIN aw_events[1]
    /\ "executionStartedEventDetails" \in DOMAIN aw_events[2]
    /\ aw_pc \in {"polling", "raised"}

(***************************************************************************)
(* Two calls of await_execution_terminated, each on its own execution,     *)
(* with their polls interleaved.  A list object lives on the heap and a    *)
(* call holds the reference `events` to the one it allocated.              *)
(***************************************************************************)
CallIds == {1, 2}

\* A module-level list that every call would use.
SharedRef(h) == 1

\* events = list(): the reference of a fresh list object.
FreshRef(h) == Len(h) + 1

\* The types execution events may have at position n of a history: it starts
\* with ExecutionStarted and goes on until ExecutionSucceeded.
ConcTypes(n) == IF n = 1 THEN {ExecutionStarted} ELSE {TaskStateEntered, ExecutionSucceeded}

InitConc ==
    /\ execs = [c \in CallIds |-> <<>>]
    /\ heap = <<>>
    /\ calls = [c \in CallIds |-> [events |-> 0, polls |-> 0, pc |-> "start"]]
    /\ IdleNorm
    /\ IdleAwait
    /\ IdleHelper
    /\ IdlePoller
    /\ IdleLater

\* await_on_execution_events is entered: events = list().
ConcEnter(c) ==
    /\ calls[c].pc = "start"
    /\ LET ref == FreshRef(heap)
       IN /\ heap' = IF ref > Len(heap) THEN Append(heap, <<>>) ELSE heap
          /\ calls' = [calls EXCEPT ![c].events = ref, ![c].pc = "polling"]
    /\ UNCHANGED execs
    /\ UNCHANGED <<normVars, awaitVars, helperVars, pollerVars, laterVars>>

\* The execution awaited by call c emits its next event; the events of
\* execution c carry the timestamp c, and nothing follows ExecutionSucceeded.
ConcEmit(c) ==
    /\ Len(execs[c]) < MaxHist
    /\ Len(execs[c]) > 0 => event_type(execs[c][Len(execs[c])]) # ExecutionSucceeded
    /\ \E type \in ConcTypes(Len(execs[c]) + 1) :
          execs' = [execs EXCEPT ![c] = Append(@, ServiceEvent(type, c, Len(@) + 1))]
    /\ UNCHANGED <<heap, calls>>
    /\ UNCHANGED <<normVars, awaitVars, helperVars, pollerVars, laterVars>>

\* poll_condition of call c evaluates _run_check once, on the list the call
\* refers to, and the call goes on from the result.
ConcPoll(c) ==
    /\ calls[c].pc = "polling"
    /\ \E resp \in Responses(execs[c]) :
          LET ref == calls[c].events
              r == _run_check(heap[ref], resp, "_is_last_history_event_terminal")
              p == poll_condition(r.res, calls[c].polls + 1)
          IN /\ heap' = [heap EXCEPT ![ref] = r.events]
             /\ calls' = [calls EXCEPT ![c].polls = @ + 1,
                                       ![c].pc = CASE p = "true" -> "returned"
                                                   [] p = "false" -> "raised"
                                                   [] OTHER -> "polling"]
    /\ UNCHANGED execs
    /\ UNCHANGED <<normVars, awaitVars, helperVars, pollerVars, laterVars>>

NextConc == \E c \in CallIds : ConcEnter(c) \/ ConcEmit(c) \/ ConcPoll(c)

SpecConc == InitConc /\ [][NextConc]_vars

\* C18: two concurrent awaits hold different accumulators; the accumulator of
\* a call never holds an event of the other call's execution, and the list a
\* call has returned is the history of its own execution.
C18_AwaitsShareNoState ==
    \A c \in CallIds :
        calls[c].pc # "start" =>
            /\ \A d \in CallIds \ {c} :
                  calls[d].pc # "start" => calls[d].events # calls[c].events
            /\ \A n \in 1..Len(heap[calls[c].events]) :
                  CountEvent(execs[c], heap[calls[c].events][n]) = 1
            /\ calls[c].pc = "returned" => heap[calls[c].events] = execs[c]

\* The second call was entered while the first was in progress, has polled and
\* returned its history, and the first, with its own events in its
\* accumulator, is still polling.
C18_Witness ==
    /\ calls[1].pc = "polling" /\ calls[1].polls >= 1
    /\ calls[2].pc = "returned"
    /\ calls[1].events < calls[2].events
    /\ Len(heap[calls[1].events]) >= 1
    /\ Len(heap[calls[2].events]) = 2

(***************************************************************************)
(* Properties of the normaliser, continued.                                *)
(***************************************************************************)

\* h[s] opens a block that is still open at the end of h.
IsTrailingBlock(h, s) ==
    /\ s \in 1..Len(h)
    /\ IsStart(h[s])
    /\ \A q \in (s + 1)..Len(h) : IsOrdinary(h[q])

\* h[p] is an untyped event met while the block opened by h[s] is open.
IsUntypedInBlock(h, s, p) ==
    /\ s \in 1..(p - 1)
    /\ IsStart(h[s])
    /\ \A q \in (s + 1)..(p - 1) : IsOrdinary(h[q])
    /\ ~IsTyped(h[p])

\* C19: when the history ends while a block is open, the normaliser drops no
\* event, and the events of that block are where they were, in the order they
\* were in.
C19_TrailingBlockLeftInPlace ==
    Done1 =>
        \A s \in 1..Len(input) :
            IsTrailingBlock(input, s) =>
                /\ Len(events) = Len(input)
                /\ \A q \in (s + 1)..Len(input) : Payload(events[q]) = Payload(input[q])

\* C20: an untyped event met while a block is open is in the output with its
\* id and previousEventId, and the ordinary events that follow it are not
\* collected into the block: none of them is in the output with its identity
\* reset.
C20_UntypedEventClosesBlock ==
    Done1 =>
        \A p \in 1..Len(input) :
            (\E s \in 1..Len(input) : IsUntypedInBlock(input, s, p)) =>
                /\ CountEvent(events, input[p]) = 1
                /\ \A q \in (p + 1)..Len(input) :
                      (\A k \in (p + 1)..q : IsOrdinary(input[k])) =>
                          CountEvent(events, ResetIdentity(input[q])) = 0

\* C21: _normalise_events raises no exception, whatever finite history it is
\* given and wherever its closing markers are: no iteration of the loop ends
\* the call with an error.
C21_NeverRaises == pc # "raised"

\* A call has returned on a history of full length that begins with a closing
\* marker and holds an untyped event.
C21_Witness ==
    /\ Done1
    /\ Len(input) = MaxLen
    /\ IsClosing(input[1])
    /\ \E p \in 1..Len(input) : ~IsTyped(input[p])

(***************************************************************************)
(* SfnNoneRecursiveParallelTransformer.transform on a document.  A         *)
(* document is held as a function from the paths at which it has an event  *)
(* list to those lists.                                                    *)
(***************************************************************************)
MaxDocLen == 2

DefaultJsonpath == "$..events"
OtherJsonpath == "$..items"

\* The paths of the model's documents, in document order.
DocPaths == <<<<"events">>, <<"execution", "events">>, <<"items">>>>

\* The key a recursive-descent jsonpath "$..key" selects.
KeyOf(jsonpath) == IF jsonpath = DefaultJsonpath THEN "events" ELSE "items"

\* parse(jsonpath).find(doc): the paths of doc that end in the key, in
\* document order.
Find(jsonpath, doc) ==
    SelectSeq(DocPaths, LAMBDA p : p \in DOMAIN doc /\ p[Len(p)] = KeyOf(jsonpath))

\* The pattern transform searches with, for a transformer constructed with
\* events_jsonpath: the literal of line 964.
PatternOf(events_jsonpath) == DefaultJsonpath

\* The event lists of up to max events over the types of LongTypes.
ListsUpTo(max) ==
    UNION {{History(ts, [n \in 1..len |-> 0]) : ts \in [1..len -> LongTypes]} :
              len \in 0..max}

\* transform is called on a document, on a transformer constructed with one
\* of the two jsonpaths.
InitTransform ==
    /\ \E events_jsonpath \in {DefaultJsonpath, OtherJsonpath} :
       \E present \in SUBSET {DocPaths[n] : n \in 1..Len(DocPaths)} :
       \E doc \in [present -> ListsUpTo(MaxDocLen)] :
          tr = [pc |-> "called", events_jsonpath |-> events_jsonpath,
                input_data |-> doc, data |-> doc, found |-> <<>>]
    /\ dep = [pc |-> "idle"]
    /\ launch = [pc |-> "idle"]
    /\ sqs = [pc |-> "idle"]
    /\ IdleNorm
    /\ IdleAwait
    /\ IdleHelper
    /\ IdlePoller
    /\ IdleConc

\* events = pattern.find(input_data); if not events: return input_data
TransformFind ==
    /\ tr.pc = "called"
    /\ LET found == Find(PatternOf(tr.events_jsonpath), tr.data)
       IN tr' = [tr EXCEPT !.found = found,
                           !.pc = IF Len(found) = 0 THEN "returned" ELSE "normalising"]
    /\ UNCHANGED <<dep, launch, sqs>>
    /\ UNCHANGED <<normVars, awaitVars, helperVars, pollerVars, concVars>>

\* for events_data in events: self._normalise_events(events_data.value)
TransformNormalise ==
    /\ tr.pc = "normalising"
    /\ Len(tr.found) > 0
    /\ tr' = [tr EXCEPT !.data[Head(tr.found)] = _normalise_events(@),
                        !.found = Tail(tr.found)]
    /\ UNCHANGED <<dep, launch, sqs>>
    /\ UNCHANGED <<normVars, awaitVars, helperVars, pollerVars, concVars>>

\* return input_data
TransformReturn ==
    /\ tr.pc = "normalising"
    /\ Len(tr.found) = 0
    /\ tr' = [tr EXCEPT !.pc = "returned"]
    /\ UNCHANGED <<dep, launch, sqs>>
    /\ UNCHANGED <<normVars, awaitVars, helperVars, pollerVars, concVars>>

NextTransform == TransformFind \/ TransformNormalise \/ TransformReturn

SpecTransform == InitTransform /\ [][NextTransform]_vars

\* C22: when the selector the transformer was constructed with finds no event
\* list in the document, transform returns the document as it was.
C22_NothingFoundNothingChanged ==
    (tr.pc = "returned" /\ Len(Find(tr.events_jsonpath, tr.input_data)) = 0) =>
        tr.data = tr.input_data

(***************************************************************************)
(* Properties of the list awaits.                                          *)
(***************************************************************************)

\* The values of a key over the items of a listing.
ValuesOf(listing, key) == {listing[n][key] : n \in 1..Len(listing)}

\* The statuses with which an execution is listed.
StatusesOf(listing, arn) ==
    {listing[n].status : n \in {m \in 1..Len(listing) : listing[m].executionArn = arn}}

\* Each execution is listed at most once.
ListedOnce(listing) ==
    \A a, b \in 1..Len(listing) :
        listing[a].executionArn = listing[b].executionArn => a = b

\* The condition of the helper was true on the latest response: the helper
\* returned on it rather than polling on or giving up.
ConditionHeld == aw_pc = "returned"

\* C23: on the listing of the latest response, the condition of a listed-style
\* await is true exactly when the listing holds the ARN, the condition of the
\* not-listed/deleted await exactly when it does not, and the condition of
\* await_execution_lists_terminated exactly when the execution, listed once,
\* has a status other than RUNNING; an execution that is not listed never
\* satisfies it.
C23_ListConditionsExact ==
    Handed =>
        /\ helper = "await_state_machine_listed" =>
              (ConditionHeld <=> TargetArn \in ValuesOf(hist_resp.stateMachines, "stateMachineArn"))
        /\ helper = "await_state_machine_not_listed" =>
              (ConditionHeld <=> TargetArn \notin ValuesOf(hist_resp.stateMachines, "stateMachineArn"))
        /\ helper = "await_state_machine_version_listed" =>
              (ConditionHeld <=> TargetArn \in ValuesOf(hist_resp.stateMachineVersions,
                                                        "stateMachineVersionArn"))
        /\ helper = "await_state_machine_version_not_listed" =>
              (ConditionHeld <=> TargetArn \notin ValuesOf(hist_resp.stateMachineVersions,
                                                           "stateMachineVersionArn"))
        /\ helper = "await_state_machine_alias_is_created" =>
              (ConditionHeld <=> TargetArn \in ValuesOf(hist_resp.stateMachineAliases,
                                                        "stateMachineAliasArn"))
        /\ helper = "await_state_machine_alias_is_deleted" =>
              (ConditionHeld <=> TargetArn \notin ValuesOf(hist_resp.stateMachineAliases,
                                                           "stateMachineAliasArn"))
        /\ helper = "await_execution_lists_terminated" =>
              /\ StatusesOf(hist_resp.executions, TargetArn) = {} => ~ConditionHeld
              /\ ListedOnce(hist_resp.executions) =>
                    (ConditionHeld <=>
                        \E st \in StatusesOf(hist_resp.executions, TargetArn) : st # RUNNING)

\* await_execution_lists_terminated returned on a listing that holds another
\* execution, still running, before the awaited one.
C23_Witness ==
    /\ helper = "await_execution_lists_terminated"
    /\ Handed
    /\ ConditionHeld
    /\ Len(hist_resp.executions) = 2
    /\ hist_resp.executions[1] = [executionArn |-> OtherArn, status |-> RUNNING]

(***************************************************************************)
(* localstack/deprecations.py: collect_affected_deprecations and           *)
(* log_env_warning, as log_deprecation_warnings calls them.                *)
(***************************************************************************)
MaxDeps == 2

\* EnvVarDeprecation(env_var, deprecation_version, deprecation_path)
EnvVarDeprecation(env_var, deprecation_version, deprecation_path) ==
    [env_var |-> env_var, deprecation_version |-> deprecation_version,
     deprecation_path |-> deprecation_path]

\* The list DEPRECATIONS, all of its entries in its order.
DEPRECATIONS ==
    <<EnvVarDeprecation("USE_SSL", "0.11.3",
          "Each endpoint now supports multiplexing HTTP/HTTPS traffic over the same port. Please remove this environment variable."),
      EnvVarDeprecation("PORT_WEB_UI", "0.12.8",
          "PORT_WEB_UI has been removed, and is not available anymore. Please remove this environment variable."),
      EnvVarDeprecation("USE_SINGLE_REGION", "0.12.7",
          "LocalStack now has full multi-region support. This option has no effect. Please remove it from your configuration."),
      EnvVarDeprecation("DEFAULT_REGION", "0.12.7",
          "LocalStack now has full multi-region support. This option has no effect. Please remove it from your configuration."),
      EnvVarDeprecation("DATA_DIR", "1.0.0",
          "Please use PERSISTENCE instead. The state will be stored in your LocalStack volume in the state/ directory."),
      EnvVarDeprecation("HOST_TMP_FOLDER", "1.0.0",
          "This option has no effect anymore. Please remove this environment variable."),
      EnvVarDeprecation("LEGACY_DIRECTORIES", "1.0.0",
          "This option has no effect anymore. Please migrate to the new filesystem layout (introduced with v1.0)."),
      EnvVarDeprecation("TMPDIR", "1.0.0",
          "Please migrate to the new filesystem layout (introduced with v1.0)."),
      EnvVarDeprecation("PERSISTENCE_SINGLE_FILE", "1.0.0",
          "The legacy persistence mechanism is not supported anymore, please migrate to the advanced persistence mechanism of LocalStack Pro."),
      EnvVarDeprecation("LEGACY_EDGE_PROXY", "1.0.0",
          "This option has no effect anymore. Please remove this environment variable."),
      EnvVarDeprecation("KINESIS_PROVIDER", "1.1.0",
          "This option has no effect anymore. Please remove this environment variable."),
      EnvVarDeprecation("LEGACY_INIT_DIR", "1.1.0",
          "This option has no effect anymore. Please use the pluggable initialization hooks in /etc/localhost/init/<stage>.d instead."),
      EnvVarDeprecation("INIT_SCRIPTS_PATH", "1.1.0",
          "This option has no effect anymore. Please use the pluggable initialization hooks in /etc/localhost/init/<stage>.d instead."),
      EnvVarDeprecation("SYNCHRONOUS_SNS_EVENTS", "1.3.0",
          "This option has no effect anymore. Please remove this environment variable."),
      EnvVarDeprecation("SYNCHRONOUS_SQS_EVENTS", "1.3.0",
          "This option has no effect anymore. Please remove this environment variable."),
      EnvVarDeprecation("SYNCHRONOUS_API_GATEWAY_EVENTS", "1.3.0",
          "This option has no effect anymore. Please remove this environment variable."),
      EnvVarDeprecation("SYNCHRONOUS_KINESIS_EVENTS", "1.3.0",
          "This option has no effect anymore. Please remove this environment variable."),
      EnvVarDeprecation("SYNCHRONOUS_DYNAMODB_EVENTS", "1.3.0",
          "This option has no effect anymore. Please remove this environment variable."),
      EnvVarDeprecation("SKIP_INFRA_DOWNLOADS", "1.3.0",
          "Infra downloads are triggered on-demand now. Please remove this environment variable."),
      EnvVarDeprecation("MOCK_UNIMPLEMENTED", "1.3.0",
          "This feature is not supported anymore. Please remove this environment variable."),
      EnvVarDeprecation("EDGE_FORWARD_URL", "1.4.0",
          "This option has no effect anymore. Please remove this environment variable."),
      EnvVarDeprecation("KMS_PROVIDER", "1.4.0",
          "This option has no effect. Please remove it from your configuration."),
      EnvVarDeprecation("HOSTNAME_EXTERNAL", "2.0.0",
          "This configuration will be migrated to LOCALSTACK_HOST"),
      EnvVarDeprecation("LOCALSTACK_HOSTNAME", "2.0.0",
          "This configuration will be migrated to LOCALSTACK_HOST"),
      EnvVarDeprecation("EDGE_BIND_HOST", "2.0.0",
          "This configuration will be migrated to GATEWAY_LISTEN"),
      EnvVarDeprecation("EDGE_PORT", "2.0.0",
          "This configuration will be migrated to GATEWAY_LISTEN"),
      EnvVarDeprecation("EDGE_PORT_HTTP", "2.0.0",
          "This configuration will be migrated to GATEWAY_LISTEN"),
      EnvVarDeprecation("LAMBDA_EXECUTOR", "2.0.0",
          "This configuration is obsolete with the new lambda provider https://docs.localstack.cloud/user-guide/aws/lambda/#migrating-to-lambda-v2\nPlease mount the Docker socket /var/run/docker.sock as a volume when starting LocalStack."),
      EnvVarDeprecation("LAMBDA_STAY_OPEN_MODE", "2.0.0",
          "Stay open mode is the default behavior in the new lambda provider https://docs.localstack.cloud/user-guide/aws/lambda/#migrating-to-lambda-v2"),
      EnvVarDeprecation("LAMBDA_REMOTE_DOCKER", "2.0.0",
          "The new lambda provider copies zip files by default and automatically configures hot reloading https://docs.localstack.cloud/user-guide/aws/lambda/#migrating-to-lambda-v2"),
      EnvVarDeprecation("LAMBDA_CODE_EXTRACT_TIME", "2.0.0",
          "Function creation now happens asynchronously in the new lambda provider https://docs.localstack.cloud/user-guide/aws/lambda/#migrating-to-lambda-v2"),
      EnvVarDeprecation("LAMBDA_CONTAINER_REGISTRY", "2.0.0",
          "The new lambda provider uses LAMBDA_RUNTIME_IMAGE_MAPPING instead https://docs.localstack.cloud/user-guide/aws/lambda/#migrating-to-lambda-v2"),
      EnvVarDeprecation("LAMBDA_FALLBACK_URL", "2.0.0",
          "This feature is not supported in the new lambda provider https://docs.localstack.cloud/user-guide/aws/lambda/#migrating-to-lambda-v2"),
      EnvVarDeprecation("LAMBDA_FORWARD_URL", "2.0.0",
          "This feature is not supported in the new lambda provider https://docs.localstack.cloud/user-guide/aws/lambda/#migrating-to-lambda-v2"),
      EnvVarDeprecation("LAMBDA_XRAY_INIT", "2.0.0",
          "The X-Ray daemon is always initialized in the new lambda provider https://docs.localstack.cloud/user-guide/aws/lambda/#migrating-to-lambda-v2"),
      EnvVarDeprecation("KINESIS_INITIALIZE_STREAMS", "1.4.0",
          "This option has no effect anymore. Please use the AWS client and init hooks instead."),
      EnvVarDeprecation("SQS_PORT_EXTERNAL", "1.0.0",
          "This option has no effect anymore. Please use LOCALSTACK_HOST instead."),
      EnvVarDeprecation("PROVIDER_OVERRIDE_LAMBDA", "3.0.0",
          "This option is ignored because the legacy Lambda provider (v1) has been removed since 3.0.0. Please remove PROVIDER_OVERRIDE_LAMBDA and migrate to our new Lambda provider (v2): https://docs.localstack.cloud/user-guide/aws/lambda/#migrating-to-lambda-v2"),
      EnvVarDeprecation("ES_CUSTOM_BACKEND", "0.14.0",
          "This option has no effect anymore. Please use OPENSEARCH_CUSTOM_BACKEND instead."),
      EnvVarDeprecation("ES_MULTI_CLUSTER", "0.14.0",
          "This option has no effect anymore. Please use OPENSEARCH_MULTI_CLUSTER instead."),
      EnvVarDeprecation("ES_ENDPOINT_STRATEGY", "0.14.0",
          "This option has no effect anymore. Please use OPENSEARCH_ENDPOINT_STRATEGY instead."),
      EnvVarDeprecation("PERSIST_ALL", "2.3.2",
          "LocalStack treats backends and assets the same with respect to persistence. Please remove PERSIST_ALL."),
      EnvVarDeprecation("DNS_LOCAL_NAME_PATTERNS", "3.0.0",
          "This option was confusingly named. Please use DNS_NAME_PATTERNS_TO_RESOLVE_UPSTREAM instead."),
      EnvVarDeprecation("LAMBDA_EVENTS_INTERNAL_SQS", "4.0.0",
          "This option is ignored because the LocalStack SQS dependency for event invokes has been removed since 4.0.0 in favor of a lightweight Lambda-internal SQS implementation."),
      EnvVarDeprecation("LAMBDA_EVENT_SOURCE_MAPPING", "4.0.0",
          "This option has no effect anymore. Please remove this environment variable."),
      EnvVarDeprecation("LAMBDA_SQS_EVENT_SOURCE_MAPPING_INTERVAL_SEC", "4.0.0",
          "This option is not supported by the new Lambda Event Source Mapping v2 implementation. Please create a GitHub issue if you experience any performance challenges."),
      EnvVarDeprecation("PROVIDER_OVERRIDE_STEPFUNCTIONS", "4.0.0",
          "This option is ignored because the legacy StepFunctions provider (v1) has been removed since 4.0.0. Please remove PROVIDER_OVERRIDE_STEPFUNCTIONS."),
      EnvVarDeprecation("EVENT_RULE_ENGINE", "4.0.3",
          "This option is ignored because the Java-based event ruler has been removed since 4.1.0. Our latest Python-native implementation introduced in 4.0.3 is faster, achieves great AWS parity, and fixes compatibility issues with the StepFunctions JSONata feature. Please remove EVENT_RULE_ENGINE."),
      EnvVarDeprecation("STEPFUNCTIONS_LAMBDA_ENDPOINT", "4.0.0",
          "This is only supported for the legacy provider. URL to use as the Lambda service endpoint in Step Functions. By default this is the LocalStack Lambda endpoint. Use default to select the original AWS Lambda endpoint."),
      EnvVarDeprecation("LOCAL_PORT_STEPFUNCTIONS", "4.0.0",
          "This is only supported for the legacy provider.It defines the local port to which Step Functions traffic is redirected.By default, LocalStack routes Step Functions traffic to its internal runtime. Use this variable only if you need to redirect traffic to a different local Step Functions runtime.")>>

\* The variables the environments set or leave unset: the first two and the
\* last of DEPRECATIONS, and one that is not deprecated.
EnvVarNames == {"USE_SSL", "PORT_WEB_UI", "LOCAL_PORT_STEPFUNCTIONS", "DEBUG"}

\* The entries of DEPRECATIONS a caller's own list is made of.
ListEntries ==
    {DEPRECATIONS[n] : n \in {m \in 1..Len(DEPRECATIONS) :
                                 DEPRECATIONS[m].env_var \in EnvVarNames}}

\* The values an environment variable may be set to.
EnvValues == {"", "1"}

\* The values PROVIDER_OVERRIDE_EVENTS may be set to.
OverrideValues == {"", "v1", "legacy", "v2"}

\* The environments: each variable is unset or set to one of its values.
Environments ==
    UNION {{e @@ o : e \in [vars_set -> EnvValues],
                     o \in {<<>>} \cup
                           {("PROVIDER_OVERRIDE_EVENTS" :> v) : v \in OverrideValues}} :
              vars_set \in SUBSET EnvVarNames}

\* A test that takes a variable set to the empty string for unset.
IsTruthy(deprecation, environ) ==
    /\ deprecation.env_var \in DOMAIN environ
    /\ environ[deprecation.env_var] # ""

\* EnvVarDeprecation.is_affected: os.environ.get(self.env_var) is not None
is_affected(deprecation, environ) == deprecation.env_var \in DOMAIN environ

RECURSIVE Affected(_, _)
\* [deprecation for deprecation in deprecations if deprecation.is_affected]
Affected(deprecations, environ) ==
    IF Len(deprecations) = 0 THEN <<>>
    ELSE (IF is_affected(deprecations[1], environ) THEN <<deprecations[1]>> ELSE <<>>)
         \o Affected(Tail(deprecations), environ)

\* collect_affected_deprecations(deprecations), deprecations being
\* [is_none |-> TRUE] for None and else holding the list.
collect_affected_deprecations(deprecations, environ) ==
    Affected(IF deprecations.is_none THEN DEPRECATIONS ELSE deprecations.list, environ)

\* A guard that lets an empty list through.
AlwaysLogs(deprecations) == TRUE

\* if deprecations:
HasDeprecations(deprecations) == Len(deprecations) > 0

InitDeprecations ==
    /\ \E environ \in Environments :
       \E arg \in {[is_none |-> TRUE, list |-> <<>>]} \cup
                  {[is_none |-> FALSE, list |-> l] :
                      l \in SeqsUpTo(ListEntries, MaxDeps)} :
          dep = [pc |-> "called", environ |-> environ, environ_on_entry |-> environ,
                 deprecations |-> arg, deprecations_on_entry |-> arg,
                 affected |-> <<>>, env_vars |-> <<>>, warnings |-> <<>>,
                 analytics |-> <<>>]
    /\ tr = [pc |-> "idle"]
    /\ launch = [pc |-> "idle"]
    /\ sqs = [pc |-> "idle"]
    /\ IdleNorm
    /\ IdleAwait
    /\ IdleHelper
    /\ IdlePoller
    /\ IdleConc

\* affected_deprecations = collect_affected_deprecations(deprecations), and
\* the entry of log_env_warning(affected_deprecations).
DepCollect ==
    /\ dep.pc = "called"
    /\ LET affected == collect_affected_deprecations(dep.deprecations, dep.environ)
       IN dep' = [dep EXCEPT !.affected = affected,
                             !.pc = IF HasDeprecations(affected)
                                    THEN "warning" ELSE "override"]
    /\ UNCHANGED <<tr, launch, sqs>>
    /\ UNCHANGED <<normVars, awaitVars, helperVars, pollerVars, concVars>>

\* One iteration of `for deprecation in deprecations` of log_env_warning.
DepWarn ==
    /\ dep.pc = "warning"
    /\ Len(dep.env_vars) < Len(dep.affected)
    /\ LET deprecation == dep.affected[Len(dep.env_vars) + 1]
       IN dep' = [dep EXCEPT !.warnings = Append(@, deprecation.env_var),
                             !.env_vars = Append(@, deprecation.env_var)]
    /\ UNCHANGED <<tr, launch, sqs>>
    /\ UNCHANGED <<normVars, awaitVars, helperVars, pollerVars, concVars>>

\* log.event(event="deprecated_env_usage", payload={"deprecated_env_vars": env_vars})
DepEvent ==
    /\ dep.pc = "warning"
    /\ Len(dep.env_vars) = Len(dep.affected)
    /\ dep' = [dep EXCEPT
                 !.analytics = Append(@, [event |-> "deprecated_env_usage",
                                          payload |-> [deprecated_env_vars |-> dep.env_vars]]),
                 !.pc = "override"]
    /\ UNCHANGED <<tr, launch, sqs>>
    /\ UNCHANGED <<normVars, awaitVars, helperVars, pollerVars, concVars>>

\* The check of PROVIDER_OVERRIDE_EVENTS that ends log_deprecation_warnings.
DepOverride ==
    /\ dep.pc = "override"
    /\ LET set == "PROVIDER_OVERRIDE_EVENTS" \in DOMAIN dep.environ
           value == IF set THEN dep.environ["PROVIDER_OVERRIDE_EVENTS"] ELSE ""
       IN dep' = [dep EXCEPT
                    !.warnings = IF value \in {"v1", "legacy"}
                                 THEN Append(@, "PROVIDER_OVERRIDE_EVENTS=" \o value)
                                 ELSE @,
                    !.pc = "returned"]
    /\ UNCHANGED <<tr, launch, sqs>>
    /\ UNCHANGED <<normVars, awaitVars, helperVars, pollerVars, concVars>>

NextDeprecations == DepCollect \/ DepWarn \/ DepEvent \/ DepOverride

SpecDeprecations == InitDeprecations /\ [][NextDeprecations]_vars


\* The list collect_affected_deprecations was asked about.
GivenList == IF dep.deprecations_on_entry.is_none THEN DEPRECATIONS
             ELSE dep.deprecations_on_entry.list

\* The positions of GivenList whose env_var is set in the environment.
SetPositions ==
    {n \in 1..Len(GivenList) : GivenList[n].env_var \in DOMAIN dep.environ_on_entry}

\* The k-th smallest of SetPositions.
KthSet(k) == CHOOSE n \in SetPositions : Cardinality({m \in SetPositions : m <= n}) = k

\* collect_affected_deprecations has returned.
Collected == dep.pc \in {"warning", "override", "returned"}

\* C24: collect_affected_deprecations returns exactly the entries of the
\* given list (DEPRECATIONS when none is given) whose env_var is set in the
\* environment, whatever its value, in the order of the list, and changes
\* neither the list nor the environment.
C24_CollectsExactlyTheSetOnes ==
    Collected =>
        /\ Len(dep.affected) = Cardinality(SetPositions)
        /\ \A k \in 1..Len(dep.affected) : dep.affected[k] = GivenList[KthSet(k)]
        /\ dep.deprecations = dep.deprecations_on_entry
        /\ dep.environ = dep.environ_on_entry

\* A call whose list holds an entry set to the empty string, after an entry
\* that is not set, and DEPRECATIONS itself with an entry set to "".
C24_Witness ==
    /\ Collected
    /\ Len(GivenList) >= 2
    /\ GivenList[1].env_var \notin DOMAIN dep.environ
    /\ GivenList[2].env_var \in DOMAIN dep.environ
    /\ dep.environ[GivenList[2].env_var] = ""
    /\ dep.affected[1] = GivenList[2]

\* log_env_warning has returned.
Warned == dep.pc \in {"override", "returned"}

\* The warnings log_env_warning logged: those before the warning about
\* PROVIDER_OVERRIDE_EVENTS.
EnvWarnings ==
    IF /\ dep.pc = "returned"
       /\ "PROVIDER_OVERRIDE_EVENTS" \in DOMAIN dep.environ
       /\ dep.environ["PROVIDER_OVERRIDE_EVENTS"] \in {"v1", "legacy"}
    THEN SubSeq(dep.warnings, 1, Len(dep.warnings) - 1)
    ELSE dep.warnings

\* C25: log_env_warning logs one warning per given deprecation, in order,
\* and then emits exactly one deprecated_env_usage event whose payload lists
\* the env vars of the given deprecations in the same order; for an empty
\* list it logs no warning and emits no event.
C25_OneWarningEachThenOneEvent ==
    /\ dep.pc = "warning" => dep.analytics = <<>>
    /\ Warned =>
          /\ Len(EnvWarnings) = Len(dep.affected)
          /\ \A k \in 1..Len(dep.affected) : EnvWarnings[k] = dep.affected[k].env_var
          /\ IF Len(dep.affected) = 0
             THEN dep.analytics = <<>>
             ELSE /\ Len(dep.analytics) = 1
                  /\ dep.analytics[1].event = "deprecated_env_usage"
                  /\ dep.analytics[1].payload.deprecated_env_vars
                        = [k \in 1..Len(dep.affected) |-> dep.affected[k].env_var]

\* A call that warned about two different deprecations and emitted its event.
C25_Witness ==
    /\ Warned
    /\ Len(dep.affected) >= 2
    /\ dep.affected[1] # dep.affected[2]
    /\ Len(dep.analytics) = 1

\* A call with nothing to warn about that has returned.
C25_WitnessEmpty ==
    /\ Warned
    /\ Len(dep.affected) = 0
    /\ Len(GivenList) > 0


\* The execution ended without success: its last event is a failure, an abort
\* or a time-out, and none of its events is a success.
EndedUnsuccessfully ==
    /\ Len(srv) > 0
    /\ event_type(srv[Len(srv)]) \in {ExecutionFailed, ExecutionAborted, ExecutionTimedOut}
    /\ \A n \in 1..Len(srv) : event_type(srv[n]) # ExecutionSucceeded

\* C26: await_execution_success never returns a history whose last event
\* lacks executionSucceededEventDetails; when the execution ends in failure,
\* abort or time-out the call returns no history and its assertion fails once
\* polling is exhausted.
C26_SuccessOrAssertionError ==
    check_func = "_check_last_is_success" =>
        /\ Returned =>
              /\ Len(aw_events) > 0
              /\ "executionSucceededEventDetails" \in DOMAIN aw_events[Len(aw_events)]
        /\ EndedUnsuccessfully =>
              /\ ~Returned
              /\ aw_pc # "polling" => (aw_pc = "raised" /\ polls = MaxPolls)

\* The execution started and failed, the last poll fetched both events, and
\* the assertion of await_execution_success has failed.
C26_Witness ==
    /\ check_func = "_check_last_is_success"
    /\ aw_pc = "raised"
    /\ polls = MaxPolls
    /\ Len(srv) = 2
    /\ event_type(srv[1]) = ExecutionStarted
    /\ event_type(srv[2]) = ExecutionFailed
    /\ Len(aw_events) = 2


(***************************************************************************)
(* launch_and_record_execution and launch_and_record_logs: an await on the *)
(* termination of the execution, then the snapshots.                       *)
(***************************************************************************)
\* The values of LogLevel the calls are made with.
LogLevels == {"OFF", "ERROR", "ALL"}

\* is_logging_enabled_for(log_level, history_event_type)
is_logging_enabled_for(log_level, history_event_type) ==
    CASE log_level = "ALL" -> TRUE
      [] log_level = "OFF" -> FALSE
      [] OTHER -> history_event_type \in {ExecutionFailed, ExecutionAborted,
                                          ExecutionTimedOut}

RECURSIVE Loggable(_, _)
\* [event for event in execution_history_events
\*  if is_logging_enabled_for(log_level=log_level, history_event_type=event["type"])]
Loggable(log_level, evs) ==
    IF Len(evs) = 0 THEN <<>>
    ELSE (IF is_logging_enabled_for(log_level, event_type(evs[1]))
          THEN <<evs[1]>> ELSE <<>>) \o Loggable(log_level, Tail(evs))

\* get_expected_execution_logs on the response resp: event["type"] raises
\* KeyError on an event without a type.
get_expected_execution_logs(log_level, resp) ==
    IF \E n \in 1..Len(resp.events) : event_type(resp.events[n]) = None
    THEN [error |-> "KeyError", events |-> <<>>]
    ELSE [error |-> "None", events |-> Loggable(log_level, resp.events)]

\* An await that lets its caller go on when the polling timed out.
AwaitEnded(state) == state \in {"returned", "raised"}

\* await_execution_terminated returned: the assert of
\* await_on_execution_events held.
AwaitPassed(state) == state = "returned"

\* A test that looks at the log level only.
OffOnly(log_level, expected_events) == log_level = "OFF"

\* if log_level == LogLevel.OFF or not expected_events: return
NoLogsExpected(log_level, expected_events) ==
    log_level = "OFF" \/ Len(expected_events) = 0

\* The states of the execution's log stream: not created, only the stream
\* that validates the delivery, the stream of the execution.
StreamStates == <<"none", ValidationStream, ExecutionStream>>

Match(snapshots, key, value) == Append(snapshots, [key |-> key, value |-> value])

\* The calls: launch_and_record_execution with or without
\* verify_execution_description, launch_and_record_logs at a log level.
InitLaunch ==
    /\ \E fn \in {"launch_and_record_execution", "launch_and_record_logs"} :
       \E verify \in BOOLEAN :
       \E log_level \in LogLevels :
          /\ fn = "launch_and_record_logs" => ~verify
          /\ fn = "launch_and_record_execution" => log_level = "OFF"
          /\ launch = [pc |-> "awaiting", fn |-> fn,
                       verify_execution_description |-> verify,
                       log_level |-> log_level, snapshots |-> <<>>,
                       result |-> None, error |-> None,
                       expected_events |-> <<>>, stream |-> 1, logs |-> <<>>,
                       polled_logs |-> FALSE]
    /\ srv = <<>>
    /\ hist_resp = NotFetched
    /\ aw_events = <<>>
    /\ check_func = "_is_last_history_event_terminal"
    /\ polls = 0
    /\ aw_pc = "polling"
    /\ tr = [pc |-> "idle"]
    /\ dep = [pc |-> "idle"]
    /\ sqs = [pc |-> "idle"]
    /\ IdleNorm
    /\ IdleHelper
    /\ IdlePoller
    /\ IdleConc

\* await_execution_terminated has ended: the caller goes on, or the
\* AssertionError ends it.
LaunchAwaited ==
    /\ launch.pc = "awaiting"
    /\ aw_pc # "polling"
    /\ launch' = IF AwaitPassed(aw_pc)
                 THEN [launch EXCEPT !.pc = IF launch.verify_execution_description
                                            THEN "describe" ELSE "history"]
                 ELSE [launch EXCEPT !.pc = "raised", !.error = "AssertionError"]
    /\ UNCHANGED <<tr, dep, sqs>>
    /\ UNCHANGED <<normVars, awaitVars, helperVars, pollerVars, concVars>>

\* The execution emits an event after the await has returned.
LaunchEmit ==
    /\ launch.pc \in {"describe", "history", "expected"}
    /\ Len(srv) < MaxHist
    /\ \E type \in ServiceTypes :
       \E ts \in {t \in {LastTimestamp(srv), LastTimestamp(srv) + 1} : t <= MaxTs} :
          srv' = Append(srv, ServiceEvent(type, ts, Len(srv) + 1))
    /\ UNCHANGED <<hist_resp, aw_events, check_func, polls, aw_pc>>
    /\ UNCHANGED <<normVars, helperVars, pollerVars, concVars, laterVars>>

\* describe_execution = stepfunctions_client.describe_execution(...): the
\* ClientError of the call is not caught; else the response, here its
\* executionArn, is matched as 'describe_execution'.
LaunchDescribe ==
    /\ launch.pc = "describe"
    /\ \E resp \in {ClientError, [executionArn |-> TargetArn]} :
          launch' = IF resp = ClientError
                    THEN [launch EXCEPT !.pc = "raised", !.error = "ClientError"]
                    ELSE [launch EXCEPT
                            !.snapshots = Match(@, "describe_execution", resp),
                            !.pc = "history"]
    /\ UNCHANGED <<tr, dep, sqs>>
    /\ UNCHANGED <<normVars, awaitVars, helperVars, pollerVars, concVars>>

\* get_execution_history is fetched once more and matched; the execution ARN
\* is returned.
LaunchHistory ==
    /\ launch.pc = "history"
    /\ \E resp \in {ClientError, [events |-> srv]} :
          launch' = IF resp = ClientError
                    THEN [launch EXCEPT !.pc = "raised", !.error = "ClientError"]
                    ELSE [launch EXCEPT
                            !.snapshots = Match(@, "get_execution_history", resp),
                            !.result = TargetArn,
                            !.pc = IF launch.fn = "launch_and_record_logs"
                                   THEN "expected" ELSE "returned"]
    /\ UNCHANGED <<tr, dep, sqs>>
    /\ UNCHANGED <<normVars, awaitVars, helperVars, pollerVars, concVars>>

\* expected_events = get_expected_execution_logs(...), and the early return of
\* launch_and_record_logs.
LaunchExpected ==
    /\ launch.pc = "expected"
    /\ \E resp \in {ClientError, [events |-> srv]} :
          launch' =
            IF resp = ClientError
            THEN [launch EXCEPT !.pc = "raised", !.error = "ClientError",
                                !.result = None]
            ELSE LET expected == get_expected_execution_logs(launch.log_level, resp)
                 IN IF expected.error # "None"
                    THEN [launch EXCEPT !.pc = "raised", !.error = expected.error,
                                        !.result = None]
                    ELSE [launch EXCEPT
                            !.expected_events = expected.events,
                            !.result = None,
                            !.pc = IF NoLogsExpected(launch.log_level, expected.events)
                                   THEN "returned" ELSE "stream"]
    /\ UNCHANGED <<tr, dep, sqs>>
    /\ UNCHANGED <<normVars, awaitVars, helperVars, pollerVars, concVars>>

\* The log group of the state machine: the next stream is created, or the
\* execution logs its next event.
LaunchLogService ==
    /\ launch.pc \in {"stream", "logs"}
    /\ \/ /\ launch.stream < Len(StreamStates)
          /\ launch' = [launch EXCEPT !.stream = @ + 1]
       \/ /\ StreamStates[launch.stream] = ExecutionStream
          /\ Len(launch.logs) < MaxLogs
          /\ Len(launch.logs) < Len(srv)
          /\ launch' = [launch EXCEPT
                          !.logs = Append(@, [message |-> srv[Len(launch.logs) + 1]])]
    /\ UNCHANGED <<tr, dep, sqs>>
    /\ UNCHANGED <<normVars, awaitVars, helperVars, pollerVars, concVars>>

\* One evaluation of the condition of _await_on_execution_log_stream_created.
LaunchStreamPoll ==
    /\ launch.pc = "stream"
    /\ \E failed \in BOOLEAN :
          launch' = [launch EXCEPT
                       !.polled_logs = TRUE,
                       !.pc = IF ~failed /\ StreamStates[launch.stream] = ExecutionStream
                              THEN "logs" ELSE "stream"]
    /\ UNCHANGED <<tr, dep, sqs>>
    /\ UNCHANGED <<normVars, awaitVars, helperVars, pollerVars, concVars>>

\* One evaluation of the condition of await_on_execution_logs with the
\* validation function is_execution_logs_list_complete(expected_events); when
\* it holds the logged events are matched and launch_and_record_logs returns.
LaunchLogsPoll ==
    /\ launch.pc = "logs"
    /\ \E failed \in BOOLEAN :
          LET log_events == LogMessages(launch.logs)
              res == /\ ~failed
                     /\ is_execution_logs_list_complete(launch.expected_events, log_events)
          IN launch' = IF poll_condition_no_timeout(res) = "true"
                       THEN [launch EXCEPT
                               !.polled_logs = TRUE,
                               !.snapshots = Match(@, "logged_execution_events",
                                                   [events |-> log_events]),
                               !.pc = "returned"]
                       ELSE [launch EXCEPT
                               !.polled_logs = TRUE]
    /\ UNCHANGED <<tr, dep, sqs>>
    /\ UNCHANGED <<normVars, awaitVars, helperVars, pollerVars, concVars>>

NextLaunch ==
    \/ ServiceEmit
    \/ Poll
    \/ LaunchAwaited
    \/ LaunchEmit
    \/ LaunchDescribe
    \/ LaunchHistory
    \/ LaunchExpected
    \/ LaunchLogService
    \/ LaunchStreamPoll
    \/ LaunchLogsPoll

SpecLaunch == InitLaunch /\ [][NextLaunch]_vars


\* The keys of the snapshots matched so far, in the order of the matches.
MatchedKeys == [k \in 1..Len(launch.snapshots) |-> launch.snapshots[k].key]

\* The snapshots launch_and_record_execution matches, in its order.
ExecutionKeys ==
    IF launch.verify_execution_description
    THEN <<"describe_execution", "get_execution_history">>
    ELSE <<"get_execution_history">>

IsPrefix(s, t) == Len(s) <= Len(t) /\ \A k \in 1..Len(s) : s[k] = t[k]

\* The await returned the history of a poll whose last event has one of the
\* given types.
PollSawLast(types) ==
    /\ aw_pc = "returned"
    /\ Len(aw_events) > 0
    /\ event_type(aw_events[Len(aw_events)]) \in types

\* What C27 says in every state of a call, the last event of the poll having
\* to be of one of the given types.
RecordsOnlyAfter(types) ==
    launch.pc # "idle" =>
        /\ Len(launch.snapshots) > 0 => PollSawLast(types)
        /\ launch.result # None => PollSawLast(types)
        /\ IsPrefix(ExecutionKeys, MatchedKeys) \/ IsPrefix(MatchedKeys, ExecutionKeys)
        /\ launch.result # None => IsPrefix(ExecutionKeys, MatchedKeys)
        /\ aw_pc = "raised" =>
              /\ launch.snapshots = <<>>
              /\ launch.result = None
              /\ launch.pc \in {"awaiting", "raised"}

\* C27 (as stated): launch_and_record_execution matches 'get_execution_history'
\* (and 'describe_execution' before it, when asked to) only after a poll saw a
\* last event of a terminal type; when the await times out nothing is matched
\* and no execution ARN is returned.
C27_SnapshotsOnlyAfterTerminalType == RecordsOnlyAfter(TerminalTypes)

\* C27 (as amended): the same, the poll having seen a last event that is of a
\* terminal type or has no type.
C27_SnapshotsOnlyAfterAwaitReturned == RecordsOnlyAfter(TerminalTypes \cup {None})

\* launch_and_record_execution, asked to verify the description, returned the
\* ARN of an execution that started and failed, with both snapshots matched.
C27_Witness ==
    /\ launch.pc = "returned"
    /\ launch.fn = "launch_and_record_execution"
    /\ launch.verify_execution_description
    /\ launch.result = TargetArn
    /\ MatchedKeys = <<"describe_execution", "get_execution_history">>
    /\ Len(aw_events) = 2
    /\ event_type(aw_events[2]) = ExecutionFailed

\* The await timed out and the AssertionError ended the call.
C27_WitnessTimeout ==
    /\ launch.pc = "raised"
    /\ launch.error = "AssertionError"
    /\ polls = MaxPolls
    /\ Len(srv) > 0


\* No event of the history is loggable at the log level of the call.
NoneLoggable ==
    \A n \in 1..Len(srv) : ~is_logging_enabled_for(launch.log_level, event_type(srv[n]))

\* The number of events of the history that are loggable at the log level.
CountLoggable ==
    Cardinality({n \in 1..Len(srv) :
                    is_logging_enabled_for(launch.log_level, event_type(srv[n]))})

LoggedMatched ==
    \E k \in 1..Len(launch.snapshots) : launch.snapshots[k].key = "logged_execution_events"

\* launch_and_record_logs is past its test of the log level and the expected
\* events, and no call of it raised.
PastLogTest ==
    /\ launch.pc \in {"stream", "logs", "returned"}
    /\ launch.error = None

\* C28: launch_and_record_logs waits for logs only when logs are expected:
\* with log_level OFF, or no history event loggable at the level, it returns
\* without polling the log group and without matching logged_execution_events;
\* otherwise it matches that snapshot only after the number of logged events
\* equals the number of expected events.
C28_WaitsForLogsOnlyWhenExpected ==
    launch.fn = "launch_and_record_logs" =>
        /\ (launch.log_level = "OFF" \/ NoneLoggable) =>
              /\ ~launch.polled_logs
              /\ ~LoggedMatched
              /\ PastLogTest => launch.pc = "returned"
        /\ (PastLogTest /\ launch.pc = "returned"
              /\ ~(launch.log_level = "OFF" \/ NoneLoggable)) => LoggedMatched
        /\ LoggedMatched =>
              /\ launch.polled_logs
              /\ Len(launch.logs) = CountLoggable
              /\ Len(launch.expected_events) = CountLoggable
              /\ MatchedKeys = <<"get_execution_history", "logged_execution_events">>
              /\ Len(launch.snapshots[2].value.events) = CountLoggable

\* launch_and_record_logs at level ERROR returned on an execution that started
\* and succeeded: nothing to log, the log group was never polled.
C28_Witness ==
    /\ launch.fn = "launch_and_record_logs"
    /\ launch.pc = "returned"
    /\ launch.log_level = "ERROR"
    /\ Len(srv) = 2
    /\ event_type(srv[2]) = ExecutionSucceeded
    /\ MatchedKeys = <<"get_execution_history">>

\* launch_and_record_logs at level ERROR matched the one logged event of an
\* execution that started and failed.
C28_WitnessLogged ==
    /\ launch.fn = "launch_and_record_logs"
    /\ launch.pc = "returned"
    /\ launch.log_level = "ERROR"
    /\ Len(srv) = 2
    /\ event_type(srv[2]) = ExecutionFailed
    /\ LoggedMatched


\* The next iteration meets a closing marker while no block is open.
ClosingMarkerOutsideBlock ==
    /\ pc = "loop"
    /\ ~LoopDone(LoopState)
    /\ IsClosing(events[i + 1])
    /\ ~in_sublist

\* C29: a closing marker met when no block is open has no effect: the
\* iteration that processes it leaves the history as it was, and the events
\* after it are still to be visited.
C29_ClosingMarkerOutsideBlockNoEffect ==
    [][ClosingMarkerOutsideBlock =>
          /\ events' = events
          /\ i' = i + 1
          /\ SubSeq(events', i' + 1, Len(events')) = SubSeq(events, i + 2, Len(events))]_vars


\* h[p] is a ParallelStateStarted met while the block opened by h[s] is open.
IsRestartedBlock(h, s, p) ==
    /\ s \in 1..(p - 1)
    /\ IsStart(h[s])
    /\ \A q \in (s + 1)..(p - 1) : IsOrdinary(h[q])
    /\ IsStart(h[p])

\* h[q] is an event of a block that is never sorted: a block open at the end
\* of h, or one that an untyped event or a ParallelStateStarted cuts short.
InUnsortedBlock(h, q) ==
    \E s \in 1..(q - 1) :
        \/ IsTrailingBlock(h, s)
        \/ \E p \in (q + 1)..Len(h) :
              IsUntypedInBlock(h, s, p) \/ IsRestartedBlock(h, s, p)

\* C30 (as stated): the events of a block that is never sorted (unterminated,
\* interrupted by an untyped event, restarted by a nested ParallelStateStarted)
\* that are at their original position in the output have the id and the
\* previousEventId they came with.
C30_UnsortedEventsKeepIdentity ==
    Done1 =>
        \A q \in 1..Len(input) :
            (/\ InUnsortedBlock(input, q)
             /\ q <= Len(events)
             /\ Payload(events[q]) = Payload(input[q])) =>
                /\ events[q].id = input[q].id
                /\ events[q].previousEventId = input[q].previousEventId

\* The events of a list.
Elements(h) == {h[k] : k \in 1..Len(h)}

\* C30 (as amended): the iteration that visits an ordinary event while a
\* block is open overwrites id and previousEventId of that event at once and
\* where it is, and changes nothing else of the list, whether or not the block
\* is sorted later; no other iteration overwrites an identity: it leaves in the
\* list only events that were in it or were collected before.
C30_IdentityOverwrittenWhenCollected ==
    [][(pc = "loop" /\ ~LoopDone(LoopState)) =>
          IF IsOrdinary(events[i + 1]) /\ in_sublist
          THEN /\ Len(events') = Len(events)
               /\ events'[i + 1].id = SentinelId
               /\ events'[i + 1].previousEventId = 0
               /\ Payload(events'[i + 1]) = Payload(events[i + 1])
               /\ \A k \in 1..Len(events) : k # i + 1 => events'[k] = events[k]
          ELSE Elements(events') \subseteq Elements(events) \cup Elements(sublist)]_vars

\* The history ended inside a block of two events that are not in sorted
\* order: both are where they were, with their identity overwritten.
C30_Witness ==
    /\ Done1
    /\ Len(input) = 3
    /\ IsTrailingBlock(input, 1)
    /\ Len(events) = 3
    /\ \A q \in 2..3 : /\ events[q].id = SentinelId
                       /\ events[q].previousEventId = 0
                       /\ input[q].id # SentinelId
                       /\ Payload(events[q]) = Payload(input[q])
    /\ SortedSublist(<<events[2], events[3]>>) # <<events[2], events[3]>>


\* The paths of a document that a jsonpath selects.
Selected(jsonpath, doc) == {p \in DOMAIN doc : p[Len(p)] = KeyOf(jsonpath)}

\* C31: transform normalises exactly the event lists that the events_jsonpath
\* given to the constructor selects: the lists it selects are normalised, and
\* every other list, those matched only by "$..events" included, is as it was.
C31_NormalisesWhatThePathSelects ==
    tr.pc = "returned" =>
        \A p \in DOMAIN tr.input_data :
            tr.data[p] = IF p \in Selected(tr.events_jsonpath, tr.input_data)
                         THEN _normalise_events(tr.input_data[p])
                         ELSE tr.input_data[p]


(***************************************************************************)
(* record_sqs_events: the events of an execution are read from a queue     *)
(* until num_events of them are there, then sorted and matched.            *)
(***************************************************************************)
MaxMsgs == 3
MaxNumEvents == 2
MaxRedeliveries == 1

\* The body of the n-th message the execution sends: an event with a time and
\* a detail. The detail holds a one-digit number, so that the order of
\* json.dumps of the details is the order of the numbers.
SqsBody(n, time) == [time |-> time, detail |-> [n |-> n]]

RECURSIVE InsertByTime(_, _)
InsertByTime(x, s) ==
    IF Len(s) = 0 THEN <<x>>
    ELSE IF x.time < s[1].time THEN <<x>> \o s
    ELSE <<s[1]>> \o InsertByTime(x, Tail(s))

RECURSIVE SortedByTime(_)
\* stepfunctions_events.sort(key=lambda e: e["time"]): a stable sort.
SortedByTime(s) ==
    IF Len(s) = 0 THEN <<>>
    ELSE InsertByTime(s[Len(s)], SortedByTime(SubSeq(s, 1, Len(s) - 1)))

RECURSIVE InsertByDetail(_, _)
InsertByDetail(x, s) ==
    IF Len(s) = 0 THEN <<x>>
    ELSE IF x.detail.n < s[1].detail.n THEN <<x>> \o s
    ELSE <<s[1]>> \o InsertByDetail(x, Tail(s))

RECURSIVE SortedByDetail(_)
\* stepfunctions_events.sort(key=lambda e: json.dumps(e.get("detail", dict())))
SortedByDetail(s) ==
    IF Len(s) = 0 THEN <<>>
    ELSE InsertByDetail(s[Len(s)], SortedByDetail(SubSeq(s, 1, Len(s) - 1)))

RECURSIVE BodiesOf(_, _)
\* [json.loads(message["Body"]) for message in received.get("Messages", [])],
\* the batch holding the messages at the positions of batch, in queue order.
BodiesOf(queue, batch) ==
    IF batch = {} THEN <<>>
    ELSE LET n == CHOOSE m \in batch : \A k \in batch : m <= k
         IN <<queue[n]>> \o BodiesOf(queue, batch \ {n})

\* return len(stepfunctions_events) == num_events
IsComplete(stepfunctions_events, num_events) == Len(stepfunctions_events) = num_events

LastTime(queue) == IF Len(queue) = 0 THEN 0 ELSE queue[Len(queue)].time

\* record_sqs_events is called with num_events; the queue is empty.
InitSqs ==
    /\ \E num_events \in 1..MaxNumEvents :
          sqs = [pc |-> "polling", num_events |-> num_events, queue |-> <<>>,
                 visible |-> {}, redelivered |-> 0, stepfunctions_events |-> <<>>,
                 evaluations |-> 0, success |-> None, snapshot |-> <<>>]
    /\ tr = [pc |-> "idle"]
    /\ dep = [pc |-> "idle"]
    /\ launch = [pc |-> "idle"]
    /\ IdleNorm
    /\ IdleAwait
    /\ IdleHelper
    /\ IdlePoller
    /\ IdleConc

\* The execution sends its next event to the queue.
SqsSend ==
    /\ sqs.pc = "polling"
    /\ Len(sqs.queue) < MaxMsgs
    /\ \E time \in {t \in {LastTime(sqs.queue), LastTime(sqs.queue) + 1} : t <= MaxTs} :
          sqs' = [sqs EXCEPT
                    !.queue = Append(@, SqsBody(Len(sqs.queue) + 1, time)),
                    !.visible = @ \cup {Len(sqs.queue) + 1}]
    /\ UNCHANGED <<tr, dep, launch>>
    /\ UNCHANGED <<normVars, awaitVars, helperVars, pollerVars, concVars>>

\* The visibility timeout of a received message passes: record_sqs_events
\* deletes no message, so the queue delivers it again.
SqsVisible ==
    /\ sqs.pc = "polling"
    /\ sqs.redelivered < MaxRedeliveries
    /\ \E n \in (1..Len(sqs.queue)) \ sqs.visible :
          sqs' = [sqs EXCEPT !.visible = @ \cup {n}, !.redelivered = @ + 1]
    /\ UNCHANGED <<tr, dep, launch>>
    /\ UNCHANGED <<normVars, awaitVars, helperVars, pollerVars, concVars>>

\* poll_condition evaluates _get_events once: a batch of the visible messages
\* is received, appended and the list sorted by time.
SqsPoll ==
    /\ sqs.pc = "polling"
    /\ \E batch \in SUBSET sqs.visible :
          LET evs == SortedByTime(sqs.stepfunctions_events \o BodiesOf(sqs.queue, batch))
              p == poll_condition(IsComplete(evs, sqs.num_events), sqs.evaluations + 1)
          IN sqs' = [sqs EXCEPT
                       !.visible = @ \ batch,
                       !.stepfunctions_events = evs,
                       !.evaluations = @ + 1,
                       !.success = IF p = "again" THEN None ELSE p,
                       !.pc = IF p = "again" THEN "polling" ELSE "polled"]
    /\ UNCHANGED <<tr, dep, launch>>
    /\ UNCHANGED <<normVars, awaitVars, helperVars, pollerVars, concVars>>

\* poll_condition has returned, its result is dropped: the list is sorted by
\* detail and matched.
SqsMatch ==
    /\ sqs.pc = "polled"
    /\ sqs' = [sqs EXCEPT
                 !.stepfunctions_events = SortedByDetail(@),
                 !.snapshot = SortedByDetail(sqs.stepfunctions_events),
                 !.pc = "matched"]
    /\ UNCHANGED <<tr, dep, launch>>
    /\ UNCHANGED <<normVars, awaitVars, helperVars, pollerVars, concVars>>

NextSqs == SqsSend \/ SqsVisible \/ SqsPoll \/ SqsMatch

SpecSqs == InitSqs /\ [][NextSqs]_vars


\* The messages of the queue that a receive has delivered at least once.
Delivered ==
    {n \in 1..Len(sqs.queue) :
        \E k \in 1..Len(sqs.stepfunctions_events) : sqs.stepfunctions_events[k] = sqs.queue[n]}

\* C32: record_sqs_events converges once enough messages have arrived: when
\* the receives made before the timeout delivered at least num_events
\* messages, in batches of any size, the poll condition became true and the
\* snapshot holds exactly num_events events, each message that was delivered
\* once and once only.
C32_ConvergesOnceEnoughArrived ==
    (sqs.pc = "matched" /\ Cardinality(Delivered) >= sqs.num_events) =>
        /\ sqs.success = "true"
        /\ Len(sqs.snapshot) = sqs.num_events
        /\ \A n \in Delivered : CountEvent(sqs.snapshot, sqs.queue[n]) = 1

\* The same for the calls during which no message was delivered again.
C32_ConvergesWithoutRedelivery ==
    sqs.redelivered = 0 => C32_ConvergesOnceEnoughArrived

====
